---- MODULE Spec2Model ----
(***************************************************************************)
(* The three two-player game engines of telegram_gaming_bot/games          *)
(* (SnakeGame, TetrisGame, PingPongGame) as one state machine.  One engine *)
(* instance `game` of one variant is live; `twin` is a second instance     *)
(* that is driven through the same calls with the same random outcomes and *)
(* that Restore replaces by from_json(game.to_json()).                     *)
(*                                                                         *)
(* Python values: an int is an integer, a str a string, a list a sequence, *)
(* None is the definition None.  A snake or food cell is a record that     *)
(* carries the Python container type it is stored in (the code builds      *)
(* tuples, json.loads builds lists) because `in` and == tell them apart.   *)
(* A call's return dict is the record [success, message, ...].             *)
(*                                                                         *)
(* With variant "registry" the state machine is GameHandler of             *)
(* game_handler.py instead: its dict active_games of live engines, the     *)
(* engine objects themselves (a coroutine keeps the object it looked up),  *)
(* and its handle_game_move coroutines, which other coroutines overtake    *)
(* wherever they await.                                                    *)
(*                                                                         *)
(* `drop` follows one drop_piece call through the rounds of its while      *)
(* loop: the move_piece call of a round, then the test of its result.      *)
(***************************************************************************)
EXTENDS Integers, Sequences, FiniteSets, TLC

VARIABLES variant,      \* "snake" | "tetris" | "pong": the class of the live engine
          game,         \* the fields of the live engine instance
          twin,         \* the fields of the second instance
          restored,     \* TRUE once twin came out of from_json(to_json())
          result,       \* what the last call on game returned
          twin_result,  \* what the same call on twin returned
          steps,        \* number of calls made so far
          game_session, \* the GameSession row of the match the handler serves
          active_games, \* GameHandler.active_games: session id -> engine object
          engines,      \* the engine objects built so far; an object is its index
          tasks,        \* the handle_game_move coroutines: where each one stands
          ledger,       \* the DatabaseManager.update_user_balance calls made
          calls,        \* number of handler calls started so far
          drop          \* the drop_piece call under way: where its loop stands

registry_vars == <<game_session, active_games, engines, tasks, ledger, calls>>

vars == <<variant, game, twin, restored, result, twin_result, steps,
          game_session, active_games, engines, tasks, ledger, calls, drop>>

(***************************************************************************)
(* Bounds                                                                  *)
(***************************************************************************)
MaxSteps == 3       \* calls per run
MaxCalls == 3       \* handler calls per run

None == 0           \* Python None; player ids are positive

\* the ids the callers pass: the session's two players and one stranger
PlayerIds == {1, 2, 3}

Min(a, b) == IF a < b THEN a ELSE b
Max(a, b) == IF a > b THEN a ELSE b
Abs(a) == IF a < 0 THEN -a ELSE a

\* a call's outcome: the instance after it and the dict it returned
Ret(g, ok, msg) == [g |-> g, res |-> [success |-> ok, message |-> msg]]

(***************************************************************************)
(* SnakeGame                                                               *)
(***************************************************************************)
Directions == {"up", "down", "left", "right"}
BadKind == "jump"   \* a move kind no variant knows

Cell(x, y) == [py |-> "tuple", x |-> x, y |-> y]

\* Python `c in s` for a list s: some element == c
In(c, s) == \E i \in 1..Len(s) : s[i] = c

\* list.remove(c): drops the first element == c
RECURSIVE Remove(_, _)
Remove(s, c) ==
    IF s = <<>> THEN <<>>
    ELSE IF Head(s) = c THEN Tail(s)
    ELSE <<Head(s)>> \o Remove(Tail(s), c)

Pop(s) == SubSeq(s, 1, Len(s) - 1)

\* is_valid_position that takes every cell for one of the board (sensitivity
\* check of C26)
snake_is_valid_position_anywhere(g, x, y) == x \in Int /\ y \in Int

snake_is_valid_position(g, x, y) ==
    0 <= x /\ x < g.board_height /\ 0 <= y /\ y < g.board_width

\* draws: the cells the attempts of one call draw, in order, repetitions dropped
RECURSIVE spawn_food_from(_, _, _)
spawn_food_from(g, draws, k) ==
    IF k > Len(draws) THEN g
    ELSE IF /\ ~In(draws[k], g.player1_snake)
            /\ ~In(draws[k], g.player2_snake)
            /\ ~In(draws[k], g.food_positions)
         THEN [g EXCEPT !.food_positions = Append(@, draws[k])]
         ELSE spawn_food_from(g, draws, k + 1)

\* spawn_food that only looks whether the cell drawn is food already, not
\* whether a snake is on it (sensitivity check of C39)
spawn_food_on_snakes(g, draws) ==
    LET free == SelectSeq(draws, LAMBDA c : ~In(c, g.food_positions))
    IN  IF free = <<>> THEN g
        ELSE [g EXCEPT !.food_positions = Append(@, Head(free))]

spawn_food(g, draws) == spawn_food_from(g, draws, 1)

\* draws: the cells both spawn_food calls draw
snake_reset_game(g, draws) ==
    LET g1 == [g EXCEPT !.player1_snake = <<Cell(7, 2), Cell(7, 1), Cell(7, 0)>>,
                        !.player1_direction = "right",
                        !.player1_score = 0,
                        !.player1_alive = TRUE,
                        !.player2_snake = <<Cell(7, 12), Cell(7, 13), Cell(7, 14)>>,
                        !.player2_direction = "left",
                        !.player2_score = 0,
                        !.player2_alive = TRUE,
                        !.food_positions = <<>>]
        g2 == spawn_food(spawn_food(g1, draws), draws)
    IN  [g2 EXCEPT !.game_over = FALSE, !.winner = None, !.turn_count = 0]

SnakeGame(session_id, player1_id, player2_id, draws) ==
    snake_reset_game(
        [session_id |-> session_id, player1_id |-> player1_id,
         player2_id |-> player2_id, board_width |-> 15, board_height |-> 15,
         player1_snake |-> <<>>, player1_direction |-> "", player1_score |-> 0,
         player1_alive |-> TRUE, player2_snake |-> <<>>,
         player2_direction |-> "", player2_score |-> 0, player2_alive |-> TRUE,
         food_positions |-> <<>>, game_over |-> FALSE, winner |-> None,
         turn_count |-> 0], draws)

opposite_directions(d) ==
    CASE d = "up" -> "down"
      [] d = "down" -> "up"
      [] d = "left" -> "right"
      [] d = "right" -> "left"
      [] OTHER -> "None"

\* move_snake with every id other than player 1's taken for player 2's
\* (sensitivity check of C7)
move_snake_any_player(g, player_id, direction) ==
    IF g.game_over THEN Ret(g, FALSE, "Game is over")
    ELSE IF player_id = g.player1_id /\ ~g.player1_alive
         THEN Ret(g, FALSE, "Player 1 is eliminated")
    ELSE IF player_id # g.player1_id /\ ~g.player2_alive
         THEN Ret(g, FALSE, "Player 2 is eliminated")
    ELSE LET current_direction == IF player_id = g.player1_id
                                  THEN g.player1_direction
                                  ELSE g.player2_direction
         IN  IF direction = opposite_directions(current_direction)
             THEN Ret(g, FALSE, "Cannot reverse direction")
             ELSE IF player_id = g.player1_id
                  THEN Ret([g EXCEPT !.player1_direction = direction], TRUE,
                           "Direction changed")
                  ELSE Ret([g EXCEPT !.player2_direction = direction], TRUE,
                           "Direction changed")

\* move_snake without the test for a reversal (sensitivity check of C18)
move_snake_reversible(g, player_id, direction) ==
    IF g.game_over THEN Ret(g, FALSE, "Game is over")
    ELSE IF player_id = g.player1_id /\ ~g.player1_alive
         THEN Ret(g, FALSE, "Player 1 is eliminated")
    ELSE IF player_id # g.player1_id /\ player_id = g.player2_id /\ ~g.player2_alive
         THEN Ret(g, FALSE, "Player 2 is eliminated")
    ELSE IF player_id # g.player1_id /\ player_id # g.player2_id
         THEN Ret(g, FALSE, "Invalid player")
    ELSE LET current_direction == IF player_id = g.player1_id
                                  THEN g.player1_direction
                                  ELSE g.player2_direction
         IN  IF FALSE
             THEN Ret(g, FALSE, "Cannot reverse direction")
             ELSE IF player_id = g.player1_id
                  THEN Ret([g EXCEPT !.player1_direction = direction], TRUE,
                           "Direction changed")
                  ELSE Ret([g EXCEPT !.player2_direction = direction], TRUE,
                           "Direction changed")

move_snake(g, player_id, direction) ==
    IF g.game_over THEN Ret(g, FALSE, "Game is over")
    ELSE IF player_id = g.player1_id /\ ~g.player1_alive
         THEN Ret(g, FALSE, "Player 1 is eliminated")
    ELSE IF player_id # g.player1_id /\ player_id = g.player2_id /\ ~g.player2_alive
         THEN Ret(g, FALSE, "Player 2 is eliminated")
    ELSE IF player_id # g.player1_id /\ player_id # g.player2_id
         THEN Ret(g, FALSE, "Invalid player")
    ELSE LET current_direction == IF player_id = g.player1_id
                                  THEN g.player1_direction
                                  ELSE g.player2_direction
         IN  IF direction = opposite_directions(current_direction)
             THEN Ret(g, FALSE, "Cannot reverse direction")
             ELSE IF player_id = g.player1_id
                  THEN Ret([g EXCEPT !.player1_direction = direction], TRUE,
                           "Direction changed")
                  ELSE Ret([g EXCEPT !.player2_direction = direction], TRUE,
                           "Direction changed")

\* the head one step further in `direction`
NewHead(head, direction) ==
    CASE direction = "up" -> Cell(head.x - 1, head.y)
      [] direction = "down" -> Cell(head.x + 1, head.y)
      [] direction = "left" -> Cell(head.x, head.y - 1)
      [] direction = "right" -> Cell(head.x, head.y + 1)

Eliminate(g, player_id) ==
    IF player_id = g.player1_id THEN [g EXCEPT !.player1_alive = FALSE]
    ELSE [g EXCEPT !.player2_alive = FALSE]

\* move_player_snake that removes the tail also when food was eaten
\* (sensitivity check of C38)
move_player_snake_always_pops(g, player_id, draws) ==
    IF player_id # g.player1_id /\ player_id # g.player2_id
    THEN Ret(g, FALSE, "Invalid player")
    ELSE
    LET first == player_id = g.player1_id
        snake == IF first THEN g.player1_snake ELSE g.player2_snake
        direction == IF first THEN g.player1_direction ELSE g.player2_direction
    IN  IF direction \notin Directions THEN Ret(g, FALSE, "Invalid direction")
        ELSE
        LET new_head == NewHead(snake[1], direction)
            other_snake == IF first THEN g.player2_snake ELSE g.player1_snake
        IN  IF ~snake_is_valid_position(g, new_head.x, new_head.y)
            THEN Ret(Eliminate(g, player_id), FALSE, "Hit wall - eliminated!")
            ELSE IF In(new_head, snake)
            THEN Ret(Eliminate(g, player_id), FALSE, "Hit self - eliminated!")
            ELSE IF In(new_head, other_snake)
            THEN Ret(Eliminate(g, player_id), FALSE, "Hit opponent - eliminated!")
            ELSE
            LET moved == <<new_head>> \o snake
                g1 == IF first THEN [g EXCEPT !.player1_snake = moved]
                      ELSE [g EXCEPT !.player2_snake = moved]
            IN  IF In(new_head, g1.food_positions)
                THEN LET g2 == [g1 EXCEPT !.food_positions = Remove(@, new_head)]
                         g3 == IF first
                               THEN [g2 EXCEPT !.player1_score = @ + 10]
                               ELSE [g2 EXCEPT !.player2_score = @ + 10]
                         g4 == IF first THEN [g3 EXCEPT !.player1_snake = Pop(@)]
                               ELSE [g3 EXCEPT !.player2_snake = Pop(@)]
                     IN  Ret(spawn_food(g4, draws), TRUE,
                             "Moved and ate food (+10 points)")
                ELSE IF first
                     THEN Ret([g1 EXCEPT !.player1_snake = Pop(@)], TRUE, "Moved")
                     ELSE Ret([g1 EXCEPT !.player2_snake = Pop(@)], TRUE, "Moved")

move_player_snake(g, player_id, draws) ==
    IF player_id # g.player1_id /\ player_id # g.player2_id
    THEN Ret(g, FALSE, "Invalid player")
    ELSE
    LET first == player_id = g.player1_id
        snake == IF first THEN g.player1_snake ELSE g.player2_snake
        direction == IF first THEN g.player1_direction ELSE g.player2_direction
    IN  IF direction \notin Directions THEN Ret(g, FALSE, "Invalid direction")
        ELSE
        LET new_head == NewHead(snake[1], direction)
            other_snake == IF first THEN g.player2_snake ELSE g.player1_snake
        IN  IF ~snake_is_valid_position(g, new_head.x, new_head.y)
            THEN Ret(Eliminate(g, player_id), FALSE, "Hit wall - eliminated!")
            ELSE IF In(new_head, snake)
            THEN Ret(Eliminate(g, player_id), FALSE, "Hit self - eliminated!")
            ELSE IF In(new_head, other_snake)
            THEN Ret(Eliminate(g, player_id), FALSE, "Hit opponent - eliminated!")
            ELSE
            LET moved == <<new_head>> \o snake
                g1 == IF first THEN [g EXCEPT !.player1_snake = moved]
                      ELSE [g EXCEPT !.player2_snake = moved]
            IN  IF In(new_head, g1.food_positions)
                THEN LET g2 == [g1 EXCEPT !.food_positions = Remove(@, new_head)]
                         g3 == IF first
                               THEN [g2 EXCEPT !.player1_score = @ + 10]
                               ELSE [g2 EXCEPT !.player2_score = @ + 10]
                     IN  Ret(spawn_food(g3, draws), TRUE,
                             "Moved and ate food (+10 points)")
                ELSE IF first
                     THEN Ret([g1 EXCEPT !.player1_snake = Pop(@)], TRUE, "Moved")
                     ELSE Ret([g1 EXCEPT !.player2_snake = Pop(@)], TRUE, "Moved")

ScoreWinner(g) ==
    IF g.player1_score > g.player2_score THEN g.player1_id
    ELSE IF g.player2_score > g.player1_score THEN g.player2_id
    ELSE None

SnakeTurnCap == 200

\* check_game_over that names the winner when one snake is eliminated but
\* does not set game_over (sensitivity check of C40)
snake_check_game_over_unflagged(g) ==
    LET g1 == IF ~g.player1_alive /\ ~g.player2_alive
              THEN [g EXCEPT !.game_over = TRUE, !.winner = ScoreWinner(g)]
              ELSE IF ~g.player1_alive
              THEN [g EXCEPT !.winner = g.player2_id]
              ELSE IF ~g.player2_alive
              THEN [g EXCEPT !.winner = g.player1_id]
              ELSE g
    IN  IF g1.turn_count >= SnakeTurnCap
        THEN [g1 EXCEPT !.game_over = TRUE, !.winner = ScoreWinner(g1)]
        ELSE g1

snake_check_game_over(g) ==
    LET g1 == IF ~g.player1_alive /\ ~g.player2_alive
              THEN [g EXCEPT !.game_over = TRUE, !.winner = ScoreWinner(g)]
              ELSE IF ~g.player1_alive
              THEN [g EXCEPT !.game_over = TRUE, !.winner = g.player2_id]
              ELSE IF ~g.player2_alive
              THEN [g EXCEPT !.game_over = TRUE, !.winner = g.player1_id]
              ELSE g
    IN  IF g1.turn_count >= SnakeTurnCap
        THEN [g1 EXCEPT !.game_over = TRUE, !.winner = ScoreWinner(g1)]
        ELSE g1

\* update_game_state without the game_over guard (sensitivity check of C27)
update_game_state_unguarded(g, draws) ==
    LET r1 == IF g.player1_alive THEN move_player_snake(g, g.player1_id, draws)
              ELSE Ret(g, TRUE, "")
        r2 == IF r1.g.player2_alive THEN move_player_snake(r1.g, r1.g.player2_id, draws)
              ELSE Ret(r1.g, TRUE, "")
        g3 == snake_check_game_over(r2.g)
        g4 == [g3 EXCEPT !.turn_count = @ + 1]
    IN  [g |-> g4,
         res |-> [success |-> TRUE, message |-> "tick",
                  p1 |-> r1.res.message, p2 |-> r2.res.message,
                  turn |-> g4.turn_count]]

\* draws: the cells a spawn_food call of this tick draws
update_game_state(g, draws) ==
    IF g.game_over
    THEN [g |-> g, res |-> [success |-> FALSE, message |-> "Game is over"]]
    ELSE
    LET r1 == IF g.player1_alive THEN move_player_snake(g, g.player1_id, draws)
              ELSE Ret(g, TRUE, "")
        r2 == IF r1.g.player2_alive THEN move_player_snake(r1.g, r1.g.player2_id, draws)
              ELSE Ret(r1.g, TRUE, "")
        g3 == snake_check_game_over(r2.g)
        g4 == [g3 EXCEPT !.turn_count = @ + 1]
    IN  [g |-> g4,
         res |-> [success |-> TRUE, message |-> "tick",
                  p1 |-> r1.res.message, p2 |-> r2.res.message,
                  turn |-> g4.turn_count]]

auto_move(g, player_id) ==
    IF player_id # g.player1_id /\ player_id # g.player2_id
    THEN Ret(g, FALSE, "Invalid player")
    ELSE
    LET first == player_id = g.player1_id
        snake == IF first THEN g.player1_snake ELSE g.player2_snake
        direction == IF first THEN g.player1_direction ELSE g.player2_direction
        other == IF first THEN g.player2_snake ELSE g.player1_snake
        Safe(h) == /\ snake_is_valid_position(g, h.x, h.y)
                   /\ ~In(h, snake)
                   /\ ~In(h, other)
        order == <<"up", "down", "left", "right">>
        Try(i) == /\ order[i] # opposite_directions(direction)
                  /\ Safe(NewHead(snake[1], order[i]))
    IN  IF direction \notin Directions
        THEN Ret(g, FALSE, "UnboundLocalError")   \* new_head was never bound
        ELSE IF Safe(NewHead(snake[1], direction))
        THEN Ret(g, TRUE, "Continued in current direction")
        ELSE IF \E i \in 1..4 : Try(i)
        THEN LET i == CHOOSE i \in 1..4 : Try(i) /\ \A j \in 1..(i - 1) : ~Try(j)
             IN  IF first
                 THEN Ret([g EXCEPT !.player1_direction = order[i]], TRUE,
                          "Changed direction")
                 ELSE Ret([g EXCEPT !.player2_direction = order[i]], TRUE,
                          "Changed direction")
        ELSE Ret(g, FALSE, "No safe direction available")

\* json.dumps writes a tuple and a list alike as an array
JsonCells(s) == [i \in 1..Len(s) |-> <<s[i].x, s[i].y>>]
\* json.loads reads an array as a list
LoadCells(a) == [i \in 1..Len(a) |-> [py |-> "list", x |-> a[i][1], y |-> a[i][2]]]

snake_to_json(g) ==
    [session_id |-> g.session_id, player1_id |-> g.player1_id,
     player2_id |-> g.player2_id,
     player1_snake |-> JsonCells(g.player1_snake),
     player2_snake |-> JsonCells(g.player2_snake),
     player1_direction |-> g.player1_direction,
     player2_direction |-> g.player2_direction,
     player1_score |-> g.player1_score, player2_score |-> g.player2_score,
     player1_alive |-> g.player1_alive, player2_alive |-> g.player2_alive,
     food_positions |-> JsonCells(g.food_positions),
     turn_count |-> g.turn_count, game_over |-> g.game_over,
     winner |-> g.winner]

\* draws: the food draws of the constructor that from_json runs first
snake_from_json(state, draws) ==
    [SnakeGame(state.session_id, state.player1_id, state.player2_id, draws)
        EXCEPT !.player1_snake = LoadCells(state.player1_snake),
               !.player2_snake = LoadCells(state.player2_snake),
               !.player1_direction = state.player1_direction,
               !.player2_direction = state.player2_direction,
               !.player1_score = state.player1_score,
               !.player2_score = state.player2_score,
               !.player1_alive = state.player1_alive,
               !.player2_alive = state.player2_alive,
               !.food_positions = LoadCells(state.food_positions),
               !.turn_count = state.turn_count,
               !.game_over = state.game_over,
               !.winner = state.winner]

(***************************************************************************)
(* TetrisGame                                                              *)
(***************************************************************************)
Tags == {"I", "O", "T", "S", "Z", "J", "L"}

\* PIECES[tag]: the orientation table; a shape is its four lines, a line the
\* set of columns j with line[j] == '#'
PIECES(tag) ==
    CASE tag = "I" -> << <<{}, {0, 1, 2, 3}, {}, {}>>,
                         <<{2}, {2}, {2}, {2}>>,
                         <<{}, {0, 1, 2, 3}, {}, {}>>,
                         <<{2}, {2}, {2}, {2}>> >>
      [] tag = "O" -> << <<{}, {1, 2}, {1, 2}, {}>> >>
      [] tag = "T" -> << <<{}, {1}, {0, 1, 2}, {}>>,
                         <<{}, {1}, {1, 2}, {1}>>,
                         <<{}, {}, {0, 1, 2}, {1}>>,
                         <<{}, {1}, {0, 1}, {1}>> >>
      [] tag = "S" -> << <<{}, {1, 2}, {0, 1}, {}>>,
                         <<{}, {1}, {1, 2}, {2}>> >>
      [] tag = "Z" -> << <<{}, {0, 1}, {1, 2}, {}>>,
                         <<{}, {2}, {1, 2}, {1}>> >>
      [] tag = "J" -> << <<{}, {1}, {1}, {0, 1}>>,
                         <<{}, {}, {0}, {0, 1, 2}>>,
                         <<{}, {1, 2}, {1}, {1}>>,
                         <<{}, {}, {0, 1, 2}, {2}>> >>
      [] tag = "L" -> << <<{}, {1}, {1}, {1, 2}>>,
                         <<{}, {}, {0, 1, 2}, {0}>>,
                         <<{}, {0, 1}, {1}, {1}>>,
                         <<{}, {}, {2}, {0, 1, 2}>> >>

\* tag: the outcome of random.choice
get_random_piece(tag) == [type |-> tag, shapes |-> PIECES(tag)]

get_piece_shape(piece, rotation) ==
    piece.shapes[(rotation % Len(piece.shapes)) + 1]

\* the (i, j) with shape[i][j] == '#'
ShapeCells(shape) == {<<i, j>> \in (0..3) \X (0..3) : j \in shape[i + 1]}

\* board[row][col], rows and columns counted from 0 as in the code
At(board, row, col) == board[row + 1][col + 1]

EmptyRow(width) == [c \in 1..width |-> "."]

tetris_is_valid_position(g, board, piece, pos, rotation) ==
    \A ij \in ShapeCells(get_piece_shape(piece, rotation)) :
        LET new_row == pos[1] + ij[1]
            new_col == pos[2] + ij[2]
        IN  /\ ~(new_row < 0 \/ new_row >= g.board_height
                 \/ new_col < 0 \/ new_col >= g.board_width)
            /\ At(board, new_row, new_col) = "."

\* place_piece that writes the piece in its first orientation whatever the
\* rotation (sensitivity check of C37)
place_piece_unrotated(g, board, piece, pos, rotation) ==
    LET cells == {<<pos[1] + ij[1], pos[2] + ij[2]>> :
                    ij \in ShapeCells(get_piece_shape(piece, 0))}
    IN  [r \in 1..Len(board) |->
            [c \in 1..Len(board[r]) |->
                IF /\ <<r - 1, c - 1>> \in cells
                   /\ 0 <= r - 1 /\ r - 1 < g.board_height
                   /\ 0 <= c - 1 /\ c - 1 < g.board_width
                THEN piece.type
                ELSE board[r][c]]]

place_piece(g, board, piece, pos, rotation) ==
    LET cells == {<<pos[1] + ij[1], pos[2] + ij[2]>> :
                    ij \in ShapeCells(get_piece_shape(piece, rotation))}
    IN  [r \in 1..Len(board) |->
            [c \in 1..Len(board[r]) |->
                IF /\ <<r - 1, c - 1>> \in cells
                   /\ 0 <= r - 1 /\ r - 1 < g.board_height
                   /\ 0 <= c - 1 /\ c - 1 < g.board_width
                THEN piece.type
                ELSE board[r][c]]]

\* '.' not in row
RowComplete(row) == \A c \in 1..Len(row) : row[c] # "."

RECURSIVE KeepIncomplete(_)
KeepIncomplete(board) ==
    IF board = <<>> THEN <<>>
    ELSE IF RowComplete(Head(board)) THEN KeepIncomplete(Tail(board))
    ELSE <<Head(board)>> \o KeepIncomplete(Tail(board))

\* clear_lines that adds the empty rows below the kept ones (sensitivity check
\* of C14)
clear_lines_below(g, board) ==
    LET kept == KeepIncomplete(board)
        missing == Max(0, g.board_height - Len(kept))
    IN  [board |-> kept \o [r \in 1..missing |-> EmptyRow(g.board_width)],
         lines_cleared |-> Len(board) - Len(kept)]

\* clear_lines that counts the complete rows and leaves them on the board
\* (sensitivity check of C36)
clear_lines_counted_only(g, board) ==
    [board |-> board, lines_cleared |-> Len(board) - Len(KeepIncomplete(board))]

clear_lines(g, board) ==
    LET kept == KeepIncomplete(board)
        missing == Max(0, g.board_height - Len(kept))
    IN  [board |-> [r \in 1..missing |-> EmptyRow(g.board_width)] \o kept,
         lines_cleared |-> Len(board) - Len(kept)]

base_scores(lines_cleared) ==
    CASE lines_cleared = 1 -> 40
      [] lines_cleared = 2 -> 100
      [] lines_cleared = 3 -> 300
      [] lines_cleared = 4 -> 1200
      [] OTHER -> 0

\* calculate_score that multiplies by the level itself (sensitivity check of
\* C15)
calculate_score_by_level(lines_cleared, level) ==
    IF lines_cleared = 0 THEN 0 ELSE base_scores(lines_cleared) * level

\* calculate_score that takes the points away (sensitivity check of C28)
calculate_score_deducted(lines_cleared, level) ==
    IF lines_cleared = 0 THEN 0 ELSE 0 - base_scores(lines_cleared) * (level + 1)

calculate_score(lines_cleared, level) ==
    IF lines_cleared = 0 THEN 0 ELSE base_scores(lines_cleared) * (level + 1)

\* f"Piece placed, {lines_cleared} lines cleared, {score_gained} points gained"
PlacedMessage(lines_cleared, score_gained) ==
    "Piece placed, " \o ToString(lines_cleared) \o " lines cleared, "
        \o ToString(score_gained) \o " points gained"

\* the dict a call returns is the one place_current_piece builds
Placed(res) == "lines_cleared" \in DOMAIN res

\* the k-th outcome (k = 0, 1, ...) of a stream of draws that repeats
Draw(draws, k) == draws[(k % Len(draws)) + 1]

\* tetris_reset_game with the scores initialised like the levels (sensitivity
\* check of C32)
tetris_reset_game_scores_as_levels(g, draws) ==
    LET empty == [r \in 1..g.board_height |-> EmptyRow(g.board_width)]
    IN  [g EXCEPT !.player1_board = empty, !.player2_board = empty,
                  !.player1_score = 1, !.player2_score = 1,
                  !.player1_lines_cleared = 0, !.player2_lines_cleared = 0,
                  !.player1_level = 1, !.player2_level = 1,
                  !.player1_current_piece = get_random_piece(Draw(draws, 0)),
                  !.player2_current_piece = get_random_piece(Draw(draws, 1)),
                  !.player1_next_piece = get_random_piece(Draw(draws, 2)),
                  !.player2_next_piece = get_random_piece(Draw(draws, 3)),
                  !.player1_piece_pos = <<0, 4>>, !.player2_piece_pos = <<0, 4>>,
                  !.player1_piece_rotation = 0, !.player2_piece_rotation = 0,
                  !.game_over = FALSE, !.winner = None]

\* draws: the tags the four get_random_piece calls draw
tetris_reset_game(g, draws) ==
    LET empty == [r \in 1..g.board_height |-> EmptyRow(g.board_width)]
    IN  [g EXCEPT !.player1_board = empty, !.player2_board = empty,
                  !.player1_score = 0, !.player2_score = 0,
                  !.player1_lines_cleared = 0, !.player2_lines_cleared = 0,
                  !.player1_level = 1, !.player2_level = 1,
                  !.player1_current_piece = get_random_piece(Draw(draws, 0)),
                  !.player2_current_piece = get_random_piece(Draw(draws, 1)),
                  !.player1_next_piece = get_random_piece(Draw(draws, 2)),
                  !.player2_next_piece = get_random_piece(Draw(draws, 3)),
                  !.player1_piece_pos = <<0, 4>>, !.player2_piece_pos = <<0, 4>>,
                  !.player1_piece_rotation = 0, !.player2_piece_rotation = 0,
                  !.game_over = FALSE, !.winner = None]

TetrisGame(session_id, player1_id, player2_id, draws) ==
    tetris_reset_game(
        [session_id |-> session_id, player1_id |-> player1_id,
         player2_id |-> player2_id, board_width |-> 10, board_height |-> 20,
         player1_board |-> <<>>, player2_board |-> <<>>,
         player1_score |-> 0, player2_score |-> 0,
         player1_lines_cleared |-> 0, player2_lines_cleared |-> 0,
         player1_level |-> 1, player2_level |-> 1,
         player1_current_piece |-> None, player2_current_piece |-> None,
         player1_next_piece |-> None, player2_next_piece |-> None,
         player1_piece_pos |-> <<>>, player2_piece_pos |-> <<>>,
         player1_piece_rotation |-> 0, player2_piece_rotation |-> 0,
         game_over |-> FALSE, winner |-> None], draws)

\* place_current_piece that tests the spawn against the board as it was
\* before the lock (sensitivity check of C16)
place_current_piece_old_board(g, player_id, draw) ==
    IF player_id # g.player1_id /\ player_id # g.player2_id
    THEN Ret(g, FALSE, "Invalid player")
    ELSE
    LET first == player_id = g.player1_id
        board == IF first THEN g.player1_board ELSE g.player2_board
        piece == IF first THEN g.player1_current_piece ELSE g.player2_current_piece
        pos == IF first THEN g.player1_piece_pos ELSE g.player2_piece_pos
        rotation == IF first THEN g.player1_piece_rotation
                    ELSE g.player2_piece_rotation
        next_piece == IF first THEN g.player1_next_piece ELSE g.player2_next_piece
        cleared == clear_lines(g, place_piece(g, board, piece, pos, rotation))
        new_board == cleared.board
        lines_cleared == cleared.lines_cleared
        level == IF first THEN g.player1_level ELSE g.player2_level
        score_gained == calculate_score(lines_cleared, level)
        blocked == ~tetris_is_valid_position(g, board, next_piece, <<0, 4>>, 0)
        g1 == IF first
              THEN [g EXCEPT
                      !.player1_board = new_board,
                      !.player1_score = @ + score_gained,
                      !.player1_lines_cleared = @ + lines_cleared,
                      !.player1_level =
                          ((g.player1_lines_cleared + lines_cleared) \div 10) + 1,
                      !.player1_current_piece = next_piece,
                      !.player1_next_piece = get_random_piece(draw),
                      !.player1_piece_pos = <<0, 4>>,
                      !.player1_piece_rotation = 0,
                      !.game_over = IF blocked THEN TRUE ELSE @,
                      !.winner = IF blocked THEN g.player2_id ELSE @]
              ELSE [g EXCEPT
                      !.player2_board = new_board,
                      !.player2_score = @ + score_gained,
                      !.player2_lines_cleared = @ + lines_cleared,
                      !.player2_level =
                          ((g.player2_lines_cleared + lines_cleared) \div 10) + 1,
                      !.player2_current_piece = next_piece,
                      !.player2_next_piece = get_random_piece(draw),
                      !.player2_piece_pos = <<0, 4>>,
                      !.player2_piece_rotation = 0,
                      !.game_over = IF blocked THEN TRUE ELSE @,
                      !.winner = IF blocked THEN g.player1_id ELSE @]
    IN  [g |-> g1,
         res |-> [success |-> TRUE,
                  message |-> PlacedMessage(lines_cleared, score_gained),
                  lines_cleared |-> lines_cleared,
                  score_gained |-> score_gained]]

\* draw: the tag get_random_piece draws for the new next piece
place_current_piece(g, player_id, draw) ==
    IF player_id # g.player1_id /\ player_id # g.player2_id
    THEN Ret(g, FALSE, "Invalid player")
    ELSE
    LET first == player_id = g.player1_id
        board == IF first THEN g.player1_board ELSE g.player2_board
        piece == IF first THEN g.player1_current_piece ELSE g.player2_current_piece
        pos == IF first THEN g.player1_piece_pos ELSE g.player2_piece_pos
        rotation == IF first THEN g.player1_piece_rotation
                    ELSE g.player2_piece_rotation
        next_piece == IF first THEN g.player1_next_piece ELSE g.player2_next_piece
        cleared == clear_lines(g, place_piece(g, board, piece, pos, rotation))
        new_board == cleared.board
        lines_cleared == cleared.lines_cleared
        level == IF first THEN g.player1_level ELSE g.player2_level
        score_gained == calculate_score(lines_cleared, level)
        blocked == ~tetris_is_valid_position(g, new_board, next_piece, <<0, 4>>, 0)
        g1 == IF first
              THEN [g EXCEPT
                      !.player1_board = new_board,
                      !.player1_score = @ + score_gained,
                      !.player1_lines_cleared = @ + lines_cleared,
                      !.player1_level =
                          ((g.player1_lines_cleared + lines_cleared) \div 10) + 1,
                      !.player1_current_piece = next_piece,
                      !.player1_next_piece = get_random_piece(draw),
                      !.player1_piece_pos = <<0, 4>>,
                      !.player1_piece_rotation = 0,
                      !.game_over = IF blocked THEN TRUE ELSE @,
                      !.winner = IF blocked THEN g.player2_id ELSE @]
              ELSE [g EXCEPT
                      !.player2_board = new_board,
                      !.player2_score = @ + score_gained,
                      !.player2_lines_cleared = @ + lines_cleared,
                      !.player2_level =
                          ((g.player2_lines_cleared + lines_cleared) \div 10) + 1,
                      !.player2_current_piece = next_piece,
                      !.player2_next_piece = get_random_piece(draw),
                      !.player2_piece_pos = <<0, 4>>,
                      !.player2_piece_rotation = 0,
                      !.game_over = IF blocked THEN TRUE ELSE @,
                      !.winner = IF blocked THEN g.player1_id ELSE @]
    IN  [g |-> g1,
         res |-> [success |-> TRUE,
                  message |-> PlacedMessage(lines_cleared, score_gained),
                  lines_cleared |-> lines_cleared,
                  score_gained |-> score_gained]]

TetrisKinds == {"left", "right", "down", "rotate"}

\* move_piece that takes a rotation without testing it (sensitivity check
\* of C13)
move_piece_rotate_unchecked(g, player_id, direction, draw) ==
    IF g.game_over THEN Ret(g, FALSE, "Game is over")
    ELSE IF player_id # g.player1_id /\ player_id # g.player2_id
    THEN Ret(g, FALSE, "Invalid player")
    ELSE IF direction \notin TetrisKinds THEN Ret(g, FALSE, "Invalid direction")
    ELSE
    LET first == player_id = g.player1_id
        board == IF first THEN g.player1_board ELSE g.player2_board
        piece == IF first THEN g.player1_current_piece ELSE g.player2_current_piece
        pos == IF first THEN g.player1_piece_pos ELSE g.player2_piece_pos
        rotation == IF first THEN g.player1_piece_rotation
                    ELSE g.player2_piece_rotation
        new_pos == CASE direction = "left" -> <<pos[1], pos[2] - 1>>
                     [] direction = "right" -> <<pos[1], pos[2] + 1>>
                     [] direction = "down" -> <<pos[1] + 1, pos[2]>>
                     [] OTHER -> pos
        new_rotation == IF direction = "rotate"
                        THEN (rotation + 1) % Len(piece.shapes)
                        ELSE rotation
    IN  IF \/ direction = "rotate"
           \/ tetris_is_valid_position(g, board, piece, new_pos, new_rotation)
        THEN IF first
             THEN Ret([g EXCEPT !.player1_piece_pos = new_pos,
                                !.player1_piece_rotation = new_rotation],
                      TRUE, "Piece moved")
             ELSE Ret([g EXCEPT !.player2_piece_pos = new_pos,
                                !.player2_piece_rotation = new_rotation],
                      TRUE, "Piece moved")
        ELSE IF direction = "down" THEN place_current_piece(g, player_id, draw)
        ELSE Ret(g, FALSE, "Invalid move")

\* move_piece that shifts the piece sideways without testing the new place
\* (sensitivity check of C17)
move_piece_shift_unchecked(g, player_id, direction, draw) ==
    IF g.game_over THEN Ret(g, FALSE, "Game is over")
    ELSE IF player_id # g.player1_id /\ player_id # g.player2_id
    THEN Ret(g, FALSE, "Invalid player")
    ELSE IF direction \notin TetrisKinds THEN Ret(g, FALSE, "Invalid direction")
    ELSE
    LET first == player_id = g.player1_id
        board == IF first THEN g.player1_board ELSE g.player2_board
        piece == IF first THEN g.player1_current_piece ELSE g.player2_current_piece
        pos == IF first THEN g.player1_piece_pos ELSE g.player2_piece_pos
        rotation == IF first THEN g.player1_piece_rotation
                    ELSE g.player2_piece_rotation
        new_pos == CASE direction = "left" -> <<pos[1], pos[2] - 1>>
                     [] direction = "right" -> <<pos[1], pos[2] + 1>>
                     [] direction = "down" -> <<pos[1] + 1, pos[2]>>
                     [] OTHER -> pos
        new_rotation == IF direction = "rotate"
                        THEN (rotation + 1) % Len(piece.shapes)
                        ELSE rotation
    IN  IF \/ direction \in {"left", "right"}
           \/ tetris_is_valid_position(g, board, piece, new_pos, new_rotation)
        THEN IF first
             THEN Ret([g EXCEPT !.player1_piece_pos = new_pos,
                                !.player1_piece_rotation = new_rotation],
                      TRUE, "Piece moved")
             ELSE Ret([g EXCEPT !.player2_piece_pos = new_pos,
                                !.player2_piece_rotation = new_rotation],
                      TRUE, "Piece moved")
        ELSE IF direction = "down" THEN place_current_piece(g, player_id, draw)
        ELSE Ret(g, FALSE, "Invalid move")

\* move_piece that stores the new rotation for both players (sensitivity
\* check of C33)
move_piece_turns_both(g, player_id, direction, draw) ==
    IF g.game_over THEN Ret(g, FALSE, "Game is over")
    ELSE IF player_id # g.player1_id /\ player_id # g.player2_id
    THEN Ret(g, FALSE, "Invalid player")
    ELSE IF direction \notin TetrisKinds THEN Ret(g, FALSE, "Invalid direction")
    ELSE
    LET first == player_id = g.player1_id
        board == IF first THEN g.player1_board ELSE g.player2_board
        piece == IF first THEN g.player1_current_piece ELSE g.player2_current_piece
        pos == IF first THEN g.player1_piece_pos ELSE g.player2_piece_pos
        rotation == IF first THEN g.player1_piece_rotation
                    ELSE g.player2_piece_rotation
        new_pos == CASE direction = "left" -> <<pos[1], pos[2] - 1>>
                     [] direction = "right" -> <<pos[1], pos[2] + 1>>
                     [] direction = "down" -> <<pos[1] + 1, pos[2]>>
                     [] OTHER -> pos
        new_rotation == IF direction = "rotate"
                        THEN (rotation + 1) % Len(piece.shapes)
                        ELSE rotation
    IN  IF tetris_is_valid_position(g, board, piece, new_pos, new_rotation)
        THEN IF first
             THEN Ret([g EXCEPT !.player1_piece_pos = new_pos,
                                !.player1_piece_rotation = new_rotation,
                                !.player2_piece_rotation = new_rotation],
                      TRUE, "Piece moved")
             ELSE Ret([g EXCEPT !.player2_piece_pos = new_pos,
                                !.player1_piece_rotation = new_rotation,
                                !.player2_piece_rotation = new_rotation],
                      TRUE, "Piece moved")
        ELSE IF direction = "down" THEN place_current_piece(g, player_id, draw)
        ELSE Ret(g, FALSE, "Invalid move")


\* move_piece without the game_over guard (sensitivity check of C34)
move_piece_after_game_over(g, player_id, direction, draw) ==
    IF player_id # g.player1_id /\ player_id # g.player2_id
    THEN Ret(g, FALSE, "Invalid player")
    ELSE IF direction \notin TetrisKinds THEN Ret(g, FALSE, "Invalid direction")
    ELSE
    LET first == player_id = g.player1_id
        board == IF first THEN g.player1_board ELSE g.player2_board
        piece == IF first THEN g.player1_current_piece ELSE g.player2_current_piece
        pos == IF first THEN g.player1_piece_pos ELSE g.player2_piece_pos
        rotation == IF first THEN g.player1_piece_rotation
                    ELSE g.player2_piece_rotation
        new_pos == CASE direction = "left" -> <<pos[1], pos[2] - 1>>
                     [] direction = "right" -> <<pos[1], pos[2] + 1>>
                     [] direction = "down" -> <<pos[1] + 1, pos[2]>>
                     [] OTHER -> pos
        new_rotation == IF direction = "rotate"
                        THEN (rotation + 1) % Len(piece.shapes)
                        ELSE rotation
    IN  IF tetris_is_valid_position(g, board, piece, new_pos, new_rotation)
        THEN IF first
             THEN Ret([g EXCEPT !.player1_piece_pos = new_pos,
                                !.player1_piece_rotation = new_rotation],
                      TRUE, "Piece moved")
             ELSE Ret([g EXCEPT !.player2_piece_pos = new_pos,
                                !.player2_piece_rotation = new_rotation],
                      TRUE, "Piece moved")
        ELSE IF direction = "down" THEN place_current_piece(g, player_id, draw)
        ELSE Ret(g, FALSE, "Invalid move")


move_piece(g, player_id, direction, draw) ==
    IF g.game_over THEN Ret(g, FALSE, "Game is over")
    ELSE IF player_id # g.player1_id /\ player_id # g.player2_id
    THEN Ret(g, FALSE, "Invalid player")
    ELSE IF direction \notin TetrisKinds THEN Ret(g, FALSE, "Invalid direction")
    ELSE
    LET first == player_id = g.player1_id
        board == IF first THEN g.player1_board ELSE g.player2_board
        piece == IF first THEN g.player1_current_piece ELSE g.player2_current_piece
        pos == IF first THEN g.player1_piece_pos ELSE g.player2_piece_pos
        rotation == IF first THEN g.player1_piece_rotation
                    ELSE g.player2_piece_rotation
        new_pos == CASE direction = "left" -> <<pos[1], pos[2] - 1>>
                     [] direction = "right" -> <<pos[1], pos[2] + 1>>
                     [] direction = "down" -> <<pos[1] + 1, pos[2]>>
                     [] OTHER -> pos
        new_rotation == IF direction = "rotate"
                        THEN (rotation + 1) % Len(piece.shapes)
                        ELSE rotation
    IN  IF tetris_is_valid_position(g, board, piece, new_pos, new_rotation)
        THEN IF first
             THEN Ret([g EXCEPT !.player1_piece_pos = new_pos,
                                !.player1_piece_rotation = new_rotation],
                      TRUE, "Piece moved")
             ELSE Ret([g EXCEPT !.player2_piece_pos = new_pos,
                                !.player2_piece_rotation = new_rotation],
                      TRUE, "Piece moved")
        ELSE IF direction = "down" THEN place_current_piece(g, player_id, draw)
        ELSE Ret(g, FALSE, "Invalid move")

\* the instance after the run of "down" moves that succeed: each such
\* move_piece call only adds one to the row of the acting player's piece_pos
SlideDown(g, player_id) ==
    LET first == player_id = g.player1_id
        board == IF first THEN g.player1_board ELSE g.player2_board
        piece == IF first THEN g.player1_current_piece ELSE g.player2_current_piece
        pos == IF first THEN g.player1_piece_pos ELSE g.player2_piece_pos
        rotation == IF first THEN g.player1_piece_rotation
                    ELSE g.player2_piece_rotation
        Valid(n) == tetris_is_valid_position(g, board, piece,
                                             <<pos[1] + n, pos[2]>>, rotation)
        n == CHOOSE n \in 0..g.board_height :
                ~Valid(n + 1) /\ \A j \in 1..n : Valid(j)
    IN  IF first THEN [g EXCEPT !.player1_piece_pos = <<pos[1] + n, pos[2]>>]
        ELSE [g EXCEPT !.player2_piece_pos = <<pos[1] + n, pos[2]>>]

\* the while loop of drop_piece, one lock per round: it ends when move_piece
\* returns success False.  draws: the tags get_random_piece draws during the
\* call, used in turn and cyclically; k: how many of them are used up
RECURSIVE drop_loop(_, _, _, _)
drop_loop(g, player_id, draws, k) ==
    IF ~move_piece(g, player_id, "down", Draw(draws, k)).res.success THEN g
    ELSE LET r == move_piece(SlideDown(g, player_id), player_id, "down",
                             Draw(draws, k))
         IN  IF ~r.res.success THEN r.g
             ELSE drop_loop(r.g, player_id, draws, k + 1)

drop_piece(g, player_id, draws) ==
    Ret(drop_loop(g, player_id, draws, 0), TRUE, "Piece dropped")

\* every value of the state is a list, a dict, a str, an int, a bool or None:
\* json.dumps and json.loads give it back as it was
tetris_to_json(g) ==
    [session_id |-> g.session_id, player1_id |-> g.player1_id,
     player2_id |-> g.player2_id,
     player1_board |-> g.player1_board, player2_board |-> g.player2_board,
     player1_score |-> g.player1_score, player2_score |-> g.player2_score,
     player1_lines_cleared |-> g.player1_lines_cleared,
     player2_lines_cleared |-> g.player2_lines_cleared,
     player1_level |-> g.player1_level, player2_level |-> g.player2_level,
     player1_current_piece |-> g.player1_current_piece,
     player2_current_piece |-> g.player2_current_piece,
     player1_next_piece |-> g.player1_next_piece,
     player2_next_piece |-> g.player2_next_piece,
     player1_piece_pos |-> g.player1_piece_pos,
     player2_piece_pos |-> g.player2_piece_pos,
     player1_piece_rotation |-> g.player1_piece_rotation,
     player2_piece_rotation |-> g.player2_piece_rotation,
     game_over |-> g.game_over, winner |-> g.winner]

\* draws: the tags the constructor that from_json runs first draws
tetris_from_json(state, draws) ==
    [TetrisGame(state.session_id, state.player1_id, state.player2_id, draws)
        EXCEPT !.player1_board = state.player1_board,
               !.player2_board = state.player2_board,
               !.player1_score = state.player1_score,
               !.player2_score = state.player2_score,
               !.player1_lines_cleared = state.player1_lines_cleared,
               !.player2_lines_cleared = state.player2_lines_cleared,
               !.player1_level = state.player1_level,
               !.player2_level = state.player2_level,
               !.player1_current_piece = state.player1_current_piece,
               !.player2_current_piece = state.player2_current_piece,
               !.player1_next_piece = state.player1_next_piece,
               !.player2_next_piece = state.player2_next_piece,
               !.player1_piece_pos = state.player1_piece_pos,
               !.player2_piece_pos = state.player2_piece_pos,
               !.player1_piece_rotation = state.player1_piece_rotation,
               !.player2_piece_rotation = state.player2_piece_rotation,
               !.game_over = state.game_over,
               !.winner = state.winner]

(***************************************************************************)
(* PingPongGame                                                            *)
(***************************************************************************)
PongTurnCap == 500

\* reset_ball that leaves rally_count as it is (sensitivity check of C21)
reset_ball_keeps_rally(g, vx, vy) ==
    [g EXCEPT !.ball_x = g.field_width \div 2,
              !.ball_y = g.field_height \div 2,
              !.ball_vel_x = vx,
              !.ball_vel_y = vy]

\* vx, vy: the outcomes of the two random.choice calls
reset_ball(g, vx, vy) ==
    [g EXCEPT !.ball_x = g.field_width \div 2,
              !.ball_y = g.field_height \div 2,
              !.ball_vel_x = vx,
              !.ball_vel_y = vy,
              !.rally_count = 0]

pong_reset_game(g, vx, vy) ==
    [g EXCEPT !.player1_paddle_y = (g.field_height \div 2) - 1,
              !.player2_paddle_y = (g.field_height \div 2) - 1,
              !.paddle_height = 3,
              !.ball_x = g.field_width \div 2,
              !.ball_y = g.field_height \div 2,
              !.ball_vel_x = vx,
              !.ball_vel_y = vy,
              !.player1_score = 0,
              !.player2_score = 0,
              !.game_over = FALSE,
              !.winner = None,
              !.rally_count = 0,
              !.max_score = 11,
              !.turn_count = 0]

PingPongGame(session_id, player1_id, player2_id, vx, vy) ==
    pong_reset_game(
        [session_id |-> session_id, player1_id |-> player1_id,
         player2_id |-> player2_id, field_width |-> 20, field_height |-> 10,
         player1_paddle_y |-> 0, player2_paddle_y |-> 0, paddle_height |-> 0,
         ball_x |-> 0, ball_y |-> 0, ball_vel_x |-> 0, ball_vel_y |-> 0,
         player1_score |-> 0, player2_score |-> 0, game_over |-> FALSE,
         winner |-> None, rally_count |-> 0, max_score |-> 0,
         turn_count |-> 0], vx, vy)

\* move_paddle without the game_over guard (sensitivity check of C3)
move_paddle_unguarded(g, player_id, direction) ==
    IF player_id # g.player1_id /\ player_id # g.player2_id
    THEN Ret(g, FALSE, "Invalid player")
    ELSE IF direction \notin {"up", "down"}
    THEN Ret(g, FALSE, "Invalid direction. Use 'up' or 'down'")
    ELSE
    LET current_y == IF player_id = g.player1_id THEN g.player1_paddle_y
                     ELSE g.player2_paddle_y
        new_y == IF direction = "up" THEN Max(0, current_y - 1)
                 ELSE Min(g.field_height - g.paddle_height, current_y + 1)
    IN  IF player_id = g.player1_id
        THEN Ret([g EXCEPT !.player1_paddle_y = new_y], TRUE, "Paddle moved")
        ELSE Ret([g EXCEPT !.player2_paddle_y = new_y], TRUE, "Paddle moved")

\* move_paddle without max and min (sensitivity check of C24)
move_paddle_unclamped(g, player_id, direction) ==
    IF g.game_over THEN Ret(g, FALSE, "Game is over")
    ELSE IF player_id # g.player1_id /\ player_id # g.player2_id
    THEN Ret(g, FALSE, "Invalid player")
    ELSE IF direction \notin {"up", "down"}
    THEN Ret(g, FALSE, "Invalid direction. Use 'up' or 'down'")
    ELSE
    LET current_y == IF player_id = g.player1_id THEN g.player1_paddle_y
                     ELSE g.player2_paddle_y
        new_y == IF direction = "up" THEN current_y - 1 ELSE current_y + 1
    IN  IF player_id = g.player1_id
        THEN Ret([g EXCEPT !.player1_paddle_y = new_y], TRUE, "Paddle moved")
        ELSE Ret([g EXCEPT !.player2_paddle_y = new_y], TRUE, "Paddle moved")

move_paddle(g, player_id, direction) ==
    IF g.game_over THEN Ret(g, FALSE, "Game is over")
    ELSE IF player_id # g.player1_id /\ player_id # g.player2_id
    THEN Ret(g, FALSE, "Invalid player")
    ELSE IF direction \notin {"up", "down"}
    THEN Ret(g, FALSE, "Invalid direction. Use 'up' or 'down'")
    ELSE
    LET current_y == IF player_id = g.player1_id THEN g.player1_paddle_y
                     ELSE g.player2_paddle_y
        new_y == IF direction = "up" THEN Max(0, current_y - 1)
                 ELSE Min(g.field_height - g.paddle_height, current_y + 1)
    IN  IF player_id = g.player1_id
        THEN Ret([g EXCEPT !.player1_paddle_y = new_y], TRUE, "Paddle moved")
        ELSE Ret([g EXCEPT !.player2_paddle_y = new_y], TRUE, "Paddle moved")

\* g.ball_vel_x and g.ball_vel_y are read after the wall bounce
check_paddle_collision(g, ball_x, ball_y) ==
    IF /\ ball_x <= 1 /\ g.ball_vel_x < 0
       /\ g.player1_paddle_y <= ball_y
       /\ ball_y < g.player1_paddle_y + g.paddle_height
    THEN [collision |-> TRUE, new_x |-> 2, new_y |-> ball_y, new_vel_x |-> 1,
          new_vel_y |-> ball_y - (g.player1_paddle_y + (g.paddle_height \div 2))]
    ELSE IF /\ ball_x >= g.field_width - 2 /\ g.ball_vel_x > 0
            /\ g.player2_paddle_y <= ball_y
            /\ ball_y < g.player2_paddle_y + g.paddle_height
    THEN [collision |-> TRUE, new_x |-> g.field_width - 3, new_y |-> ball_y,
          new_vel_x |-> -1,
          new_vel_y |-> ball_y - (g.player2_paddle_y + (g.paddle_height \div 2))]
    ELSE [collision |-> FALSE]

\* check_game_over that only looks at the turn cap (sensitivity check of C23)
pong_check_game_over_cap_only(g) ==
    IF g.turn_count >= PongTurnCap
    THEN [g EXCEPT !.game_over = TRUE, !.winner = ScoreWinner(g)]
    ELSE g

pong_check_game_over(g) ==
    LET g1 == IF g.player1_score >= g.max_score
              THEN [g EXCEPT !.game_over = TRUE, !.winner = g.player1_id]
              ELSE IF g.player2_score >= g.max_score
              THEN [g EXCEPT !.game_over = TRUE, !.winner = g.player2_id]
              ELSE g
    IN  IF g1.turn_count >= PongTurnCap
        THEN [g1 EXCEPT !.game_over = TRUE, !.winner = ScoreWinner(g1)]
        ELSE g1

\* update_ball without the scoring branches: a ball no paddle returns moves
\* on (sensitivity check of C25)
update_ball_no_scoring(g, vx, vy) ==
    IF g.game_over THEN Ret(g, FALSE, "Game is over")
    ELSE
    LET new_x == g.ball_x + g.ball_vel_x
        y0 == g.ball_y + g.ball_vel_y
        new_y == IF y0 <= 0 THEN 0
                 ELSE IF y0 >= g.field_height - 1 THEN g.field_height - 1
                 ELSE y0
        g1 == IF y0 <= 0 THEN [g EXCEPT !.ball_vel_y = Abs(@)]
              ELSE IF y0 >= g.field_height - 1 THEN [g EXCEPT !.ball_vel_y = -Abs(@)]
              ELSE g
        collision_result == check_paddle_collision(g1, new_x, new_y)
        r == IF collision_result.collision
             THEN Ret([g1 EXCEPT !.ball_vel_x = collision_result.new_vel_x,
                                 !.ball_vel_y = collision_result.new_vel_y,
                                 !.rally_count = @ + 1],
                      TRUE, "Paddle hit!")
             ELSE Ret([g1 EXCEPT !.ball_x = new_x, !.ball_y = new_y],
                      TRUE, "Ball moved")
    IN  [g |-> [r.g EXCEPT !.turn_count = @ + 1], res |-> r.res]

\* vx, vy: the outcomes reset_ball draws when a point is scored
update_ball(g, vx, vy) ==
    IF g.game_over THEN Ret(g, FALSE, "Game is over")
    ELSE
    LET new_x == g.ball_x + g.ball_vel_x
        y0 == g.ball_y + g.ball_vel_y
        new_y == IF y0 <= 0 THEN 0
                 ELSE IF y0 >= g.field_height - 1 THEN g.field_height - 1
                 ELSE y0
        g1 == IF y0 <= 0 THEN [g EXCEPT !.ball_vel_y = Abs(@)]
              ELSE IF y0 >= g.field_height - 1 THEN [g EXCEPT !.ball_vel_y = -Abs(@)]
              ELSE g
        collision_result == check_paddle_collision(g1, new_x, new_y)
        \* on a hit new_x and new_y are set to collision_result's, but never
        \* stored: ball_x and ball_y stay as they were
        r == IF collision_result.collision
             THEN Ret([g1 EXCEPT !.ball_vel_x = collision_result.new_vel_x,
                                 !.ball_vel_y = collision_result.new_vel_y,
                                 !.rally_count = @ + 1],
                      TRUE, "Paddle hit!")
             ELSE IF new_x <= 0
             THEN Ret(pong_check_game_over(
                          reset_ball([g1 EXCEPT !.player2_score = @ + 1], vx, vy)),
                      TRUE, "Player 2 scores!")
             ELSE IF new_x >= g.field_width - 1
             THEN Ret(pong_check_game_over(
                          reset_ball([g1 EXCEPT !.player1_score = @ + 1], vx, vy)),
                      TRUE, "Player 1 scores!")
             ELSE Ret([g1 EXCEPT !.ball_x = new_x, !.ball_y = new_y],
                      TRUE, "Ball moved")
    IN  [g |-> [r.g EXCEPT !.turn_count = @ + 1], res |-> r.res]

auto_move_paddle(g, player_id) ==
    IF g.game_over THEN Ret(g, FALSE, "Game is over")
    ELSE IF player_id # g.player1_id /\ player_id # g.player2_id
    THEN Ret(g, FALSE, "Invalid player")
    ELSE
    LET paddle_y == IF player_id = g.player1_id THEN g.player1_paddle_y
                    ELSE g.player2_paddle_y
        paddle_center == paddle_y + (g.paddle_height \div 2)
    IN  IF g.ball_y < paddle_center THEN move_paddle(g, player_id, "up")
        ELSE IF g.ball_y > paddle_center THEN move_paddle(g, player_id, "down")
        ELSE Ret(g, TRUE, "Paddle in optimal position")

simulate_turn(g, vx, vy) ==
    IF g.game_over THEN Ret(g, FALSE, "Game is over")
    ELSE update_ball(g, vx, vy)

pong_to_json(g) ==
    [session_id |-> g.session_id, player1_id |-> g.player1_id,
     player2_id |-> g.player2_id,
     player1_score |-> g.player1_score, player2_score |-> g.player2_score,
     player1_paddle_y |-> g.player1_paddle_y,
     player2_paddle_y |-> g.player2_paddle_y,
     ball_x |-> g.ball_x, ball_y |-> g.ball_y,
     ball_vel_x |-> g.ball_vel_x, ball_vel_y |-> g.ball_vel_y,
     rally_count |-> g.rally_count, turn_count |-> g.turn_count,
     max_score |-> g.max_score, game_over |-> g.game_over,
     winner |-> g.winner]

\* from_json that leaves rally_count as the constructor set it (sensitivity
\* check of C2)
pong_from_json_no_rally(state, vx, vy) ==
    [PingPongGame(state.session_id, state.player1_id, state.player2_id, vx, vy)
        EXCEPT !.player1_score = state.player1_score,
               !.player2_score = state.player2_score,
               !.player1_paddle_y = state.player1_paddle_y,
               !.player2_paddle_y = state.player2_paddle_y,
               !.ball_x = state.ball_x,
               !.ball_y = state.ball_y,
               !.ball_vel_x = state.ball_vel_x,
               !.ball_vel_y = state.ball_vel_y,
               !.turn_count = state.turn_count,
               !.max_score = state.max_score,
               !.game_over = state.game_over,
               !.winner = state.winner]

\* vx, vy: the outcomes the constructor that from_json runs first draws
pong_from_json(state, vx, vy) ==
    [PingPongGame(state.session_id, state.player1_id, state.player2_id, vx, vy)
        EXCEPT !.player1_score = state.player1_score,
               !.player2_score = state.player2_score,
               !.player1_paddle_y = state.player1_paddle_y,
               !.player2_paddle_y = state.player2_paddle_y,
               !.ball_x = state.ball_x,
               !.ball_y = state.ball_y,
               !.ball_vel_x = state.ball_vel_x,
               !.ball_vel_y = state.ball_vel_y,
               !.rally_count = state.rally_count,
               !.turn_count = state.turn_count,
               !.max_score = state.max_score,
               !.game_over = state.game_over,
               !.winner = state.winner]

(***************************************************************************)
(* from_json as its caller sees it: an instance, or the exception raised   *)
(***************************************************************************)
Raised(err) == [success |-> FALSE, message |-> err]
Loaded(instance) == [success |-> TRUE, message |-> "", game |-> instance]

\* the keys from_json reads with state[...]
SnakeKeys ==
    {"session_id", "player1_id", "player2_id", "player1_snake", "player2_snake",
     "player1_direction", "player2_direction", "player1_score", "player2_score",
     "player1_alive", "player2_alive", "food_positions", "turn_count",
     "game_over", "winner"}
TetrisJsonKeys ==
    {"session_id", "player1_id", "player2_id", "player1_board", "player2_board",
     "player1_score", "player2_score", "player1_lines_cleared",
     "player2_lines_cleared", "player1_level", "player2_level",
     "player1_current_piece", "player2_current_piece", "player1_next_piece",
     "player2_next_piece", "player1_piece_pos", "player2_piece_pos",
     "player1_piece_rotation", "player2_piece_rotation", "game_over", "winner"}
PongKeys ==
    {"session_id", "player1_id", "player2_id", "player1_score", "player2_score",
     "player1_paddle_y", "player2_paddle_y", "ball_x", "ball_y", "ball_vel_x",
     "ball_vel_y", "rally_count", "turn_count", "max_score", "game_over",
     "winner"}

\* state: a parsed JSON object; a key it lacks raises KeyError, nothing else
\* is looked at
snake_load(state, draws) ==
    IF SnakeKeys \subseteq DOMAIN state
    THEN Loaded(snake_from_json(state, draws))
    ELSE Raised("KeyError")

tetris_load(state, draws) ==
    IF TetrisJsonKeys \subseteq DOMAIN state
    THEN Loaded(tetris_from_json(state, draws))
    ELSE Raised("KeyError")

pong_load(state, vx, vy) ==
    IF PongKeys \subseteq DOMAIN state
    THEN Loaded(pong_from_json(state, vx, vy))
    ELSE Raised("KeyError")

(***************************************************************************)
(* Random outcomes and caller inputs                                       *)
(***************************************************************************)
\* the cells random.randint draws in spawn_food
FoodDraws == {Cell(7, 3), Cell(7, 11)}
\* the draws of one spawn_food call: one cell (every attempt draws it), or two
FoodDrawSeqs == {<<c>> : c \in FoodDraws}
                \cup {cd \in FoodDraws \X FoodDraws : cd[1] # cd[2]}

\* the tags random.choice draws in the get_random_piece calls of one call,
\* used in turn and cyclically
PieceDrawSeqs == {<<"I", "O">>, <<"T", "J">>}

\* the outcomes of random.choice([-1, 1]) and random.choice([-1, 0, 1])
VelXDraws == {-1, 1}
VelYDraws == {-1, 0, 1}

\* snapshots that are well-formed JSON but no valid state: state is a snapshot
\* the engine wrote, changed in one place
WithoutKey(state, key) == [k \in DOMAIN state \ {key} |-> state[k]]
SnakeMalformed == {"snake_cell_outside", "food_cell_outside", "missing_key"}
TetrisMalformed == {"board_dimensions", "rotation_range", "position_range",
                    "missing_key"}
PongMalformed == {"paddle_outside", "ball_outside", "missing_key"}
Malformed(state, kind) ==
    CASE kind = "snake_cell_outside" ->
            [state EXCEPT !.player1_snake = <<<<15, 2>>>> \o Tail(@)]
      [] kind = "food_cell_outside" ->
            [state EXCEPT !.food_positions = <<<<-1, 40>>>>]
      [] kind = "board_dimensions" ->
            [state EXCEPT !.player1_board = <<EmptyRow(3), EmptyRow(3)>>]
      [] kind = "rotation_range" ->
            [state EXCEPT !.player1_piece_rotation = 9]
      [] kind = "position_range" ->
            [state EXCEPT !.player2_piece_pos = <<25, -3>>]
      [] kind = "paddle_outside" ->
            [state EXCEPT !.player1_paddle_y = 50]
      [] kind = "ball_outside" ->
            [state EXCEPT !.ball_x = -7, !.ball_y = 30]
      [] kind = "missing_key" -> WithoutKey(state, "winner")

(***************************************************************************)
(* Start states: a construction, or a state the engine reaches from one    *)
(***************************************************************************)
SnakeFresh == {SnakeGame("s", 1, 2, draws) : draws \in FoodDrawSeqs}

\* SnakeGame("s", 1, 2) with food drawn at (0,5) and (0,6), then four
\* update_game_state calls: the heads face each other one cell apart
SnakeClose ==
    [SnakeGame("s", 1, 2, <<Cell(0, 5), Cell(0, 6)>>)
        EXCEPT !.player1_snake = <<Cell(7, 6), Cell(7, 5), Cell(7, 4)>>,
               !.player2_snake = <<Cell(7, 8), Cell(7, 9), Cell(7, 10)>>,
               !.turn_count = 4]

\* SnakeGame("s", 1, 2) with food drawn at (0,5) and (0,6), then 33 rounds of
\* move_snake up, left, left, down, right, right for player 1 and
\* up, right, right, down, left, left for player 2, one update_game_state
\* after each pair: both snakes are back on their start cells after 198 ticks
SnakeLate ==
    [SnakeGame("s", 1, 2, <<Cell(0, 5), Cell(0, 6)>>)
        EXCEPT !.turn_count = 198]

\* SnakeGame("s", 1, 2) with food drawn at (0,5) and (0,6), then 49 rounds of
\* move_snake up, left, down, right for player 1 and up, right, down, left for
\* player 2, one update_game_state after each pair, then four more
\* update_game_state calls: the layout of SnakeClose after 200 ticks
SnakeCap ==
    [SnakeClose EXCEPT !.turn_count = 200]

\* SnakeGame("s", 1, 2) with food drawn at (0,5) and (0,6), then
\* move_snake(1, "up") and seven update_game_state calls: player 1's head is
\* on the top row, heading up
SnakeEdge ==
    [SnakeGame("s", 1, 2, <<Cell(0, 5), Cell(0, 6)>>)
        EXCEPT !.player1_snake = <<Cell(0, 2), Cell(1, 2), Cell(2, 2)>>,
               !.player1_direction = "up",
               !.player2_snake = <<Cell(7, 5), Cell(7, 6), Cell(7, 7)>>,
               !.turn_count = 7]

SnakeStarts == SnakeFresh \cup {SnakeClose, SnakeLate, SnakeCap, SnakeEdge}

TetrisFresh == {TetrisGame("s", 1, 2, draws) : draws \in PieceDrawSeqs}

\* a board row holding `tag` in the columns of `filled` (counted from 0)
RowOf(filled, tag) == [c \in 1..10 |-> IF c - 1 \in filled THEN tag ELSE "."]

\* TetrisGame("s", 1, 2) where every draw but one gives "I".  Player 1 stood
\* ten I pieces upright side by side twice (4 rows cleared each time), then
\* nine more in columns 0..8, and holds the tenth upright over column 9, one
\* row above its landing row.  Player 2 laid two I pieces flat in row 19, stood
\* one upright on column 0 and holds an O over columns 8 and 9, one row above
\* its landing row.  All by move_piece calls.
TetrisMid ==
    [TetrisGame("s", 1, 2, <<"I">>) EXCEPT
        !.player1_board = [r \in 1..20 |-> IF r >= 17 THEN RowOf(0..8, "I")
                                           ELSE EmptyRow(10)],
        !.player2_board = [r \in 1..20 |-> IF r = 20 THEN RowOf(0..7, "I")
                                           ELSE IF r >= 16 THEN RowOf({0}, "I")
                                           ELSE EmptyRow(10)],
        !.player1_score = 4800,
        !.player1_lines_cleared = 8,
        !.player2_current_piece = get_random_piece("O"),
        !.player1_piece_pos = <<15, 7>>,
        !.player1_piece_rotation = 1,
        !.player2_piece_pos = <<16, 7>>]

\* TetrisGame("s", 1, 2) where every draw gives "O" but the last one of
\* player 2, which gives "I".  Each player locked eight O pieces where they
\* spawn, one on the other, by move_piece "down" calls, and moved the ninth
\* down one row: it rests on the stack.
TetrisTall ==
    [TetrisGame("s", 1, 2, <<"O">>) EXCEPT
        !.player1_board = [r \in 1..20 |-> IF r >= 5 THEN RowOf({5, 6}, "O")
                                           ELSE EmptyRow(10)],
        !.player2_board = [r \in 1..20 |-> IF r >= 5 THEN RowOf({5, 6}, "O")
                                           ELSE EmptyRow(10)],
        !.player2_next_piece = get_random_piece("I"),
        !.player1_piece_pos = <<1, 4>>,
        !.player2_piece_pos = <<1, 4>>]

TetrisStarts == TetrisFresh \cup {TetrisMid, TetrisTall}

PongFresh == {PingPongGame("s", 1, 2, vx, vy) : vx \in VelXDraws, vy \in VelYDraws}

\* PingPongGame("s", 1, 2) serving right and level; player 2 steps up twice
\* and misses (9 ticks), misses the next serve too (9 ticks), steps back;
\* player 1 steps up twice and misses a serve to the left (10 ticks), steps
\* back and both return every ball until tick 499, then player 1 steps up twice
PongLate ==
    [PingPongGame("s", 1, 2, -1, 0)
        EXCEPT !.player1_score = 2, !.player2_score = 1,
               !.player1_paddle_y = 2, !.player2_paddle_y = 4,
               !.ball_x = 2, !.ball_y = 5,
               !.rally_count = 29, !.turn_count = 499]

\* PingPongGame("s", 1, 2) where every serve is level.  Player 2 steps up to
\* rows 0..2 and lets ten serves to the right pass; player 1 steps down to rows
\* 7..9 and lets ten serves to the left pass: 10-10 after 190 ticks.  Player 2
\* steps down twice and the next serve, to the right, has flown 7 ticks.
PongMatchRight ==
    [PingPongGame("s", 1, 2, 1, 0)
        EXCEPT !.player1_score = 10, !.player2_score = 10,
               !.player1_paddle_y = 7, !.player2_paddle_y = 2,
               !.ball_x = 17, !.ball_y = 5,
               !.turn_count = 197]

\* the same match up to 10-10; player 1 steps up to rows 0..2, player 2 down
\* to rows 7..9 and the next serve, to the left, has flown 8 ticks
PongMatchLeft ==
    [PingPongGame("s", 1, 2, -1, 0)
        EXCEPT !.player1_score = 10, !.player2_score = 10,
               !.player1_paddle_y = 0, !.player2_paddle_y = 7,
               !.ball_x = 2, !.ball_y = 5,
               !.turn_count = 198]

\* PingPongGame("s", 1, 2) serving left and up, after four update_ball calls:
\* the ball is one row below the top wall
PongServe ==
    [PingPongGame("s", 1, 2, -1, -1)
        EXCEPT !.ball_x = 6, !.ball_y = 1, !.turn_count = 4]

PongStarts == PongFresh \cup {PongLate, PongMatchRight, PongMatchLeft, PongServe}

Starts(v) ==
    CASE v = "snake" -> SnakeStarts
      [] v = "tetris" -> TetrisStarts
      [] v = "pong" -> PongStarts

(***************************************************************************)
(* The state machine                                                       *)
(***************************************************************************)
\* a call as the caller sees it: the method, the player id and move kind
\* passed (None and "" when the method takes none), the dict returned
Called(op, player, kind, res) ==
    [op |-> op, player |-> player, kind |-> kind, ret |-> res]

Done == [success |-> TRUE, message |-> ""]

\* no drop_piece call is under way
NoDrop == [pc |-> "idle", player |-> None, draws |-> <<>>, k |-> 0]

\* the coroutines a run has: two handle_game_move calls can be under way
TaskIds == {1, 2}

\* a coroutine slot no call occupies
IdleTask == [pc |-> "idle", user |-> None, ref |-> None, session_id |-> ""]

\* GameHandler() before any call: no engine is registered
RegistryIdle ==
    /\ active_games = <<>>
    /\ engines = <<>>
    /\ tasks = [t \in TaskIds |-> IdleTask]
    /\ ledger = <<>>
    /\ calls = 0

InitOf(v) ==
    /\ variant = v
    /\ game \in Starts(v)
    /\ twin = game
    /\ restored = FALSE
    /\ result = Called("__init__", None, "", Done)
    /\ twin_result = result
    /\ steps = 0
    /\ game_session = None
    /\ RegistryIdle
    /\ drop = NoDrop

Init == \E v \in {"snake", "tetris", "pong"} : InitOf(v)

\* one call made on game and on twin: R and RT are what it returned
Apply(op, player, kind, R, RT) ==
    /\ steps < MaxSteps
    /\ game' = R.g
    /\ twin' = RT.g
    /\ result' = Called(op, player, kind, R.res)
    /\ twin_result' = Called(op, player, kind, RT.res)
    /\ steps' = steps + 1
    /\ UNCHANGED <<variant, restored>>
    /\ UNCHANGED registry_vars
    /\ UNCHANGED drop

\* twin = from_json(game.to_json()); game is only read
Reload(RT) ==
    /\ steps < MaxSteps
    /\ ~restored
    /\ twin' = RT
    /\ restored' = TRUE
    /\ result' = Called("to_json", None, "", Done)
    /\ twin_result' = Called("from_json", None, "", Done)
    /\ steps' = steps + 1
    /\ UNCHANGED <<variant, game>>
    /\ UNCHANGED registry_vars
    /\ UNCHANGED drop

MoveSnake ==
    /\ variant = "snake"
    /\ steps < MaxSteps
    /\ \E p \in PlayerIds, d \in Directions \cup {BadKind} :
          \E R \in {move_snake(game, p, d)} :
          \E RT \in {IF twin = game THEN R ELSE move_snake(twin, p, d)} :
             Apply("move_snake", p, d, R, RT)

UpdateGameState ==
    /\ variant = "snake"
    /\ steps < MaxSteps
    /\ \E draws \in FoodDrawSeqs :
          \E R \in {update_game_state(game, draws)} :
          \E RT \in {IF twin = game THEN R ELSE update_game_state(twin, draws)} :
             Apply("update_game_state", None, "", R, RT)

AutoMove ==
    /\ variant = "snake"
    /\ steps < MaxSteps
    /\ \E p \in PlayerIds :
          \E R \in {auto_move(game, p)} :
          \E RT \in {IF twin = game THEN R ELSE auto_move(twin, p)} :
             Apply("auto_move", p, "", R, RT)

\* reset_game() called on an instance in use, finished or not; it returns None
SnakeResetGame ==
    /\ variant = "snake"
    /\ steps < MaxSteps
    /\ \E draws \in FoodDrawSeqs :
          \E R \in {[g |-> snake_reset_game(game, draws), res |-> Done]} :
          \E RT \in {IF twin = game THEN R
                     ELSE [g |-> snake_reset_game(twin, draws), res |-> Done]} :
             Apply("reset_game", None, "", R, RT)

\* spawn_food() called by itself; it returns True when a cell was appended
SpawnFood ==
    /\ variant = "snake"
    /\ steps < MaxSteps
    /\ \E draws \in FoodDrawSeqs :
          \E R \in {LET g1 == spawn_food(game, draws)
                    IN  Ret(g1, g1 # game, "")} :
          \E RT \in {IF twin = game THEN R
                     ELSE LET t1 == spawn_food(twin, draws)
                          IN  Ret(t1, t1 # twin, "")} :
             Apply("spawn_food", None, "", R, RT)

\* move_player_snake(player_id) called outside a tick: game_over, the alive
\* flags and turn_count are neither read nor written
MovePlayerSnake ==
    /\ variant = "snake"
    /\ steps < MaxSteps
    /\ \E p \in PlayerIds, draws \in FoodDrawSeqs :
          \E R \in {move_player_snake(game, p, draws)} :
          \E RT \in {IF twin = game THEN R ELSE move_player_snake(twin, p, draws)} :
             Apply("move_player_snake", p, "", R, RT)

\* check_game_over() called by itself; it returns None
SnakeCheckGameOver ==
    /\ variant = "snake"
    /\ steps < MaxSteps
    /\ \E R \in {[g |-> snake_check_game_over(game), res |-> Done]} :
       \E RT \in {IF twin = game THEN R
                  ELSE [g |-> snake_check_game_over(twin), res |-> Done]} :
          Apply("check_game_over", None, "", R, RT)

RestoreSnake ==
    /\ variant = "snake"
    /\ steps < MaxSteps
    /\ \E draws \in FoodDrawSeqs :
          Reload(snake_from_json(snake_to_json(game), draws))

\* only a "down" move can lock and so draw a next piece
MovePiece ==
    /\ variant = "tetris"
    /\ steps < MaxSteps
    /\ \E p \in PlayerIds, d \in TetrisKinds \cup {BadKind} :
          \E draw \in IF d = "down" THEN {Draw(draws, 0) : draws \in PieceDrawSeqs}
                       ELSE {"I"} :
          \E R \in {move_piece(game, p, d, draw)} :
          \E RT \in {IF twin = game THEN R ELSE move_piece(twin, p, d, draw)} :
             Apply("move_piece", p, d, R, RT)

DropPiece ==
    /\ variant = "tetris"
    /\ steps < MaxSteps
    /\ \E p \in PlayerIds, draws \in PieceDrawSeqs :
          \E R \in {drop_piece(game, p, draws)} :
          \E RT \in {IF twin = game THEN R ELSE drop_piece(twin, p, draws)} :
             Apply("drop_piece", p, "", R, RT)

\* reset_game() called on an instance in use, finished or not; it returns None
TetrisResetGame ==
    /\ variant = "tetris"
    /\ steps < MaxSteps
    /\ \E draws \in PieceDrawSeqs :
          \E R \in {[g |-> tetris_reset_game(game, draws), res |-> Done]} :
          \E RT \in {IF twin = game THEN R
                     ELSE [g |-> tetris_reset_game(twin, draws), res |-> Done]} :
             Apply("reset_game", None, "", R, RT)

\* place_current_piece(player_id) called by itself: the piece is locked where
\* it is, and game_over is not read
PlaceCurrentPiece ==
    /\ variant = "tetris"
    /\ steps < MaxSteps
    /\ \E p \in PlayerIds, draws \in PieceDrawSeqs :
          \E R \in {place_current_piece(game, p, Draw(draws, 0))} :
          \E RT \in {IF twin = game THEN R
                     ELSE place_current_piece(twin, p, Draw(draws, 0))} :
             Apply("place_current_piece", p, "", R, RT)

\* a sideways or turning move_piece call before the drop_piece call ("down"
\* moves are what the drop itself makes)
AimPiece ==
    /\ variant = "tetris"
    /\ drop.pc = "idle"
    /\ \E p \in {game.player1_id, game.player2_id},
          d \in {"left", "right", "rotate"} :
          \E R \in {move_piece(game, p, d, "I")} :
             Apply("move_piece", p, d, R, R)

\* drop_piece is called: the while loop is entered
DropBegin ==
    /\ variant = "tetris"
    /\ drop.pc = "idle"
    /\ \E p \in PlayerIds, draws \in PieceDrawSeqs :
          drop' = [pc |-> "call", player |-> p, draws |-> draws, k |-> 0]
    /\ UNCHANGED <<variant, game, twin, restored, result, twin_result, steps>>
    /\ UNCHANGED registry_vars

\* result = self.move_piece(player_id, "down")
DropCall ==
    /\ variant = "tetris"
    /\ drop.pc = "call"
    /\ \E R \in {move_piece(game, drop.player, "down", Draw(drop.draws, drop.k))} :
          /\ game' = R.g
          /\ twin' = R.g
          /\ result' = Called("move_piece", drop.player, "down", R.res)
    /\ twin_result' = result'
    /\ drop' = [drop EXCEPT !.pc = "test"]
    /\ UNCHANGED <<variant, restored, steps>>
    /\ UNCHANGED registry_vars

\* if not result["success"]: break, and the return after the loop; otherwise
\* back to the loop head (a lock has used up one draw)
DropTest ==
    /\ variant = "tetris"
    /\ drop.pc = "test"
    /\ IF result.ret.success
       THEN /\ drop' = [drop EXCEPT
                          !.pc = "call",
                          !.k = IF Placed(result.ret)
                                THEN (@ + 1) % Len(drop.draws) ELSE @]
            /\ UNCHANGED <<result, twin_result>>
       ELSE /\ drop' = [drop EXCEPT !.pc = "returned"]
            /\ result' = Called("drop_piece", drop.player, "",
                                [success |-> TRUE, message |-> "Piece dropped"])
            /\ twin_result' = result'
    /\ UNCHANGED <<variant, game, twin, restored, steps>>
    /\ UNCHANGED registry_vars

\* the control step of DropCall: the call is made and control reaches the test
DropCallReturns ==
    /\ drop.pc = "call"
    /\ drop' = [drop EXCEPT !.pc = "test"]

DropNext ==
    \/ AimPiece
    \/ DropBegin
    \/ DropCall
    \/ DropTest

RestoreTetris ==
    /\ variant = "tetris"
    /\ steps < MaxSteps
    /\ \E draws \in PieceDrawSeqs :
          Reload(tetris_from_json(tetris_to_json(game), draws))

MovePaddle ==
    /\ variant = "pong"
    /\ steps < MaxSteps
    /\ \E p \in PlayerIds, d \in {"up", "down", BadKind} :
          \E R \in {move_paddle(game, p, d)} :
          \E RT \in {IF twin = game THEN R ELSE move_paddle(twin, p, d)} :
             Apply("move_paddle", p, d, R, RT)

UpdateBall ==
    /\ variant = "pong"
    /\ steps < MaxSteps
    /\ \E vx \in VelXDraws, vy \in VelYDraws :
          \E R \in {update_ball(game, vx, vy)} :
          \E RT \in {IF twin = game THEN R ELSE update_ball(twin, vx, vy)} :
             Apply("update_ball", None, "", R, RT)

SimulateTurn ==
    /\ variant = "pong"
    /\ steps < MaxSteps
    /\ \E vx \in VelXDraws, vy \in VelYDraws :
          \E R \in {simulate_turn(game, vx, vy)} :
          \E RT \in {IF twin = game THEN R ELSE simulate_turn(twin, vx, vy)} :
             Apply("simulate_turn", None, "", R, RT)

AutoMovePaddle ==
    /\ variant = "pong"
    /\ steps < MaxSteps
    /\ \E p \in PlayerIds :
          \E R \in {auto_move_paddle(game, p)} :
          \E RT \in {IF twin = game THEN R ELSE auto_move_paddle(twin, p)} :
             Apply("auto_move_paddle", p, "", R, RT)

\* reset_game() called on an instance in use, finished or not; it returns None
PongResetGame ==
    /\ variant = "pong"
    /\ steps < MaxSteps
    /\ \E vx \in VelXDraws, vy \in VelYDraws :
          \E R \in {[g |-> pong_reset_game(game, vx, vy), res |-> Done]} :
          \E RT \in {IF twin = game THEN R
                     ELSE [g |-> pong_reset_game(twin, vx, vy), res |-> Done]} :
             Apply("reset_game", None, "", R, RT)

\* reset_ball() called by itself; game_over is not read, it returns None
ResetBall ==
    /\ variant = "pong"
    /\ steps < MaxSteps
    /\ \E vx \in VelXDraws, vy \in VelYDraws :
          \E R \in {[g |-> reset_ball(game, vx, vy), res |-> Done]} :
          \E RT \in {IF twin = game THEN R
                     ELSE [g |-> reset_ball(twin, vx, vy), res |-> Done]} :
             Apply("reset_ball", None, "", R, RT)

\* check_game_over() called by itself; it returns None
PongCheckGameOver ==
    /\ variant = "pong"
    /\ steps < MaxSteps
    /\ \E R \in {[g |-> pong_check_game_over(game), res |-> Done]} :
       \E RT \in {IF twin = game THEN R
                  ELSE [g |-> pong_check_game_over(twin), res |-> Done]} :
          Apply("check_game_over", None, "", R, RT)

RestorePong ==
    /\ variant = "pong"
    /\ steps < MaxSteps
    /\ \E vx \in VelXDraws, vy \in VelYDraws :
          Reload(pong_from_json(pong_to_json(game), vx, vy))

\* from_json called on a malformed snapshot; no instance in use is touched
Load(kind, R) ==
    /\ steps < MaxSteps
    /\ result' = Called("from_json", None, kind, R)
    /\ twin_result' = result'
    /\ steps' = steps + 1
    /\ UNCHANGED <<variant, game, twin, restored>>
    /\ UNCHANGED registry_vars
    /\ UNCHANGED drop

LoadSnake ==
    /\ variant = "snake"
    /\ steps < MaxSteps
    /\ \E kind \in SnakeMalformed, draws \in FoodDrawSeqs :
          Load(kind, snake_load(Malformed(snake_to_json(game), kind), draws))

LoadTetris ==
    /\ variant = "tetris"
    /\ steps < MaxSteps
    /\ \E kind \in TetrisMalformed, draws \in PieceDrawSeqs :
          Load(kind, tetris_load(Malformed(tetris_to_json(game), kind), draws))

LoadPong ==
    /\ variant = "pong"
    /\ steps < MaxSteps
    /\ \E kind \in PongMalformed, vx \in VelXDraws, vy \in VelYDraws :
          Load(kind, pong_load(Malformed(pong_to_json(game), kind), vx, vy))

(***************************************************************************)
(* GameHandler: the registry of live engines and the coroutines on it      *)
(***************************************************************************)
GameTypes == {"tetris", "snake", "pingpong"}

\* the GameSession row the handlers are handed: players 1 and 2, a bet of 10
GameSessionRow(game_type) ==
    [session_id |-> "s", game_type |-> game_type,
     player1_id |-> 1, player2_id |-> 2, bet_amount |-> 10]

\* the engine objects start_game_session can build for a row, one for each
\* outcome of the constructor's random draws
FreshEngines(row) ==
    CASE row.game_type = "tetris" ->
            {[kind |-> "tetris",
              g |-> TetrisGame(row.session_id, row.player1_id, row.player2_id, draws)]
                : draws \in PieceDrawSeqs}
      [] row.game_type = "snake" ->
            {[kind |-> "snake",
              g |-> SnakeGame(row.session_id, row.player1_id, row.player2_id, draws)]
                : draws \in FoodDrawSeqs}
      [] row.game_type = "pingpong" ->
            {[kind |-> "pong",
              g |-> PingPongGame(row.session_id, row.player1_id, row.player2_id, vx, vy)]
                : vx \in VelXDraws, vy \in VelYDraws}

\* the sessions whose registered engine has user_id as a player and is not
\* over: the loop of handle_game_move takes the first one
ActiveSessionsOf(user_id) ==
    {sid \in DOMAIN active_games :
        LET g == engines[active_games[sid]].g
        IN  (g.player1_id = user_id \/ g.player2_id = user_id) /\ ~g.game_over}

\* the command words main.py routes to handle_game_move, some of them
MoveTypes == {"left", "up", "drop", "tick"}

\* what the engine call of handle_game_move can return, one outcome for each
\* outcome of the engine's random draws; no outcome when move_type is not a
\* move of the engine's class (result stays None)
MoveOutcomes(e, user_id, move_type) ==
    CASE e.kind = "tetris" /\ move_type \in {"left", "right", "down", "rotate"} ->
            {move_piece(e.g, user_id, move_type, Draw(draws, 0)) : draws \in PieceDrawSeqs}
      [] e.kind = "tetris" /\ move_type = "drop" ->
            {drop_piece(e.g, user_id, draws) : draws \in PieceDrawSeqs}
      [] e.kind = "snake" /\ move_type \in {"up", "down", "left", "right"} ->
            {move_snake(e.g, user_id, move_type)}
      [] e.kind = "snake" /\ move_type = "tick" ->
            {update_game_state(e.g, draws) : draws \in FoodDrawSeqs}
      [] e.kind = "pong" /\ move_type \in {"up", "down"} ->
            {move_paddle(e.g, user_id, move_type)}
      [] e.kind = "pong" /\ move_type = "tick" ->
            {simulate_turn(e.g, vx, vy) : vx \in VelXDraws, vy \in VelYDraws}
      [] OTHER -> {}

\* one update_user_balance call of handle_game_over
Credit(user_id, amount, session_id) ==
    [user_id |-> user_id, amount |-> amount, session_id |-> session_id]

\* the update_user_balance calls of handle_game_over for the engine object
\* ref: the pot to the winner, or each bet back on a tie
Settlement(row, session_id, ref) ==
    LET g == engines[ref].g
    IN  IF g.winner # None
        THEN <<Credit(g.winner, row.bet_amount * 2, session_id)>>
        ELSE <<Credit(row.player1_id, row.bet_amount, session_id),
               Credit(row.player2_id, row.bet_amount, session_id)>>

engine_vars == <<variant, game, twin, restored, twin_result, steps, drop>>

\* start_game_session: builds an engine and stores it under the session id,
\* whatever is stored there.  For a TetrisGame the call then raises TypeError
\* (get_board_display() lacks its player_id argument); the engine stays stored.
StartGameSession ==
    /\ variant = "registry"
    /\ calls < MaxCalls
    /\ \E e \in FreshEngines(game_session) :
          /\ engines' = Append(engines, e)
          /\ active_games' =
                [sid \in DOMAIN active_games \cup {game_session.session_id} |->
                    IF sid = game_session.session_id THEN Len(engines) + 1
                    ELSE active_games[sid]]
          /\ result' = Called("start_game_session", None, game_session.game_type,
                              IF e.kind = "tetris"
                              THEN [success |-> FALSE, message |-> "TypeError"]
                              ELSE [success |-> TRUE, message |-> "Game Started!"])
    /\ calls' = calls + 1
    /\ UNCHANGED <<game_session, tasks, ledger>>
    /\ UNCHANGED engine_vars

\* handle_game_move up to its first await: looks the caller's engine up, makes
\* the engine call and is suspended in reply_text with the engine object in
\* hand.  It ends here when there is no engine, when move_type is no move of
\* the engine, and for a TetrisGame (TypeError from get_board_display()).
BeginMove ==
    /\ variant = "registry"
    /\ calls < MaxCalls
    /\ \E t \in TaskIds, user_id \in PlayerIds, move_type \in MoveTypes :
          /\ tasks[t].pc = "idle"
          /\ IF ActiveSessionsOf(user_id) = {}
             THEN /\ result' = Called("handle_game_move", user_id, move_type,
                                      [success |-> FALSE,
                                       message |-> "You have no active games"])
                  /\ UNCHANGED <<engines, tasks>>
             ELSE LET sid == CHOOSE x \in ActiveSessionsOf(user_id) : TRUE
                      ref == active_games[sid]
                      outcomes == MoveOutcomes(engines[ref], user_id, move_type)
                  IN  IF outcomes = {}
                      THEN /\ result' = Called("handle_game_move", user_id, move_type,
                                               [success |-> FALSE,
                                                message |-> "Invalid move for this game"])
                           /\ UNCHANGED <<engines, tasks>>
                      ELSE \E R \in outcomes :
                              /\ engines' = [engines EXCEPT ![ref].g = R.g]
                              /\ result' = Called("handle_game_move", user_id,
                                                  move_type, R.res)
                              /\ tasks' = IF engines[ref].kind = "tetris"
                                          THEN tasks
                                          ELSE [tasks EXCEPT ![t] =
                                                  [pc |-> "reply", user |-> user_id,
                                                   ref |-> ref, session_id |-> sid]]
    /\ calls' = calls + 1
    /\ UNCHANGED <<game_session, active_games, ledger>>
    /\ UNCHANGED engine_vars

\* handle_game_move after reply_text: when the engine object in hand is over,
\* handle_game_over credits the balances and then raises NameError (User is
\* not imported), which it answers with another reply_text; otherwise
\* save_game_state writes the snapshot and the coroutine ends
ResumeMove ==
    /\ variant = "registry"
    /\ \E t \in TaskIds :
          /\ tasks[t].pc = "reply"
          /\ IF engines[tasks[t].ref].g.game_over
             THEN /\ ledger' = ledger \o Settlement(game_session, tasks[t].session_id,
                                                    tasks[t].ref)
                  /\ tasks' = [tasks EXCEPT ![t].pc = "error_reply"]
                  /\ result' = Called("handle_game_over", tasks[t].user, "",
                                      [success |-> FALSE, message |-> "NameError"])
             ELSE /\ tasks' = [tasks EXCEPT ![t] = IdleTask]
                  /\ result' = Called("save_game_state", tasks[t].user, "", Done)
                  /\ UNCHANGED ledger
    /\ UNCHANGED <<game_session, active_games, engines, calls>>
    /\ UNCHANGED engine_vars

\* handle_game_over after the reply_text of its except branch: the coroutine
\* ends; the engine is still in active_games
ResumeError ==
    /\ variant = "registry"
    /\ \E t \in TaskIds :
          /\ tasks[t].pc = "error_reply"
          /\ tasks' = [tasks EXCEPT ![t] = IdleTask]
          /\ result' = Called("handle_game_move", tasks[t].user, "", Done)
    /\ UNCHANGED <<game_session, active_games, engines, ledger, calls>>
    /\ UNCHANGED engine_vars

\* GameHandler() with no engine registered; or with the Snake engine of
\* SnakeClose registered: start_game_session and four handle_game_move "tick"
\* calls, one after the other
RegistryInit ==
    /\ variant = "registry"
    /\ game = None
    /\ twin = None
    /\ restored = FALSE
    /\ result = Called("__init__", None, "", Done)
    /\ twin_result = result
    /\ steps = 0
    /\ drop = NoDrop
    /\ \/ /\ game_session \in {GameSessionRow(t) : t \in GameTypes}
          /\ RegistryIdle
       \/ /\ game_session = GameSessionRow("snake")
          /\ engines = <<[kind |-> "snake", g |-> SnakeClose]>>
          /\ active_games = [sid \in {"s"} |-> 1]
          /\ tasks = [t \in TaskIds |-> IdleTask]
          /\ ledger = <<>>
          /\ calls = 0

RegistryNext ==
    \/ StartGameSession
    \/ BeginMove
    \/ ResumeMove
    \/ ResumeError

SnakeNext ==
    \/ MoveSnake
    \/ UpdateGameState
    \/ AutoMove
    \/ SnakeResetGame
    \/ SpawnFood
    \/ MovePlayerSnake
    \/ SnakeCheckGameOver
    \/ RestoreSnake
    \/ LoadSnake

TetrisNext ==
    \/ MovePiece
    \/ DropPiece
    \/ TetrisResetGame
    \/ PlaceCurrentPiece
    \/ RestoreTetris
    \/ LoadTetris

PongNext ==
    \/ MovePaddle
    \/ UpdateBall
    \/ SimulateTurn
    \/ AutoMovePaddle
    \/ PongResetGame
    \/ ResetBall
    \/ PongCheckGameOver
    \/ RestorePong
    \/ LoadPong

Next ==
    \/ SnakeNext
    \/ TetrisNext
    \/ PongNext

\* any of the three engines
Spec == Init /\ [][Next]_vars

\* one engine each
SpecSnake == InitOf("snake") /\ [][SnakeNext]_vars
SpecTetris == InitOf("tetris") /\ [][TetrisNext]_vars
SpecPong == InitOf("pong") /\ [][PongNext]_vars

\* a Snake match: every call SnakeGame offers except reset_game and the steps
\* of a tick (spawn_food, move_player_snake, check_game_over), which a match
\* reaches through update_game_state only
SnakePlay ==
    \/ MoveSnake
    \/ UpdateGameState
    \/ AutoMove
    \/ RestoreSnake
    \/ LoadSnake

SpecSnakePlay == InitOf("snake") /\ [][SnakePlay]_vars

\* the handler with one session
SpecRegistry == RegistryInit /\ [][RegistryNext]_vars

\* a TetrisGame on which, after some move_piece calls, one drop_piece call is
\* made.  drop_piece has no await: once its loop is entered the call of a
\* round is made and returns (move_piece has no unbounded loop), and its
\* result is tested.  DropCall is enabled whenever control is at the call, so
\* its fairness is stated on its control step.
SpecDrop ==
    /\ InitOf("tetris")
    /\ [][DropNext]_vars
    /\ WF_drop(DropCallReturns)
    /\ WF_vars(DropTest)

(***************************************************************************)
(* Properties                                                              *)
(***************************************************************************)
SessionIds(g) == {g.player1_id, g.player2_id}

\* a snake instance with every cell read as its coordinates
Coords(cells) == [i \in 1..Len(cells) |-> <<cells[i].x, cells[i].y>>]
SnakeView(g) ==
    [g EXCEPT !.player1_snake = Coords(@), !.player2_snake = Coords(@),
              !.food_positions = Coords(@)]

\* C1: a SnakeGame restored from its own snapshot, driven through the same
\* calls with the same food draws as the original, returns the same results
\* and holds the same snakes, food, scores, alive flags, turn count, game_over
\* and winner as the original.
C1_SnakeRoundTrip ==
    (variant = "snake" /\ restored) =>
        /\ twin_result.ret = result.ret
        /\ SnakeView(twin) = SnakeView(game)

\* C2: for a TetrisGame or PingPongGame, from_json(to_json()) equals the
\* instance on every field, whatever the constructor inside from_json draws,
\* and a restored instance driven through the same calls as the original
\* returns the same results and stays equal to it.
C2_TetrisPongRoundTrip ==
    /\ variant = "tetris" =>
          \A draws \in PieceDrawSeqs :
              tetris_from_json(tetris_to_json(game), draws) = game
    /\ variant = "pong" =>
          \A vx \in VelXDraws, vy \in VelYDraws :
              pong_from_json(pong_to_json(game), vx, vy) = game
    /\ (variant \in {"tetris", "pong"} /\ restored) =>
          (twin = game /\ twin_result.ret = result.ret)

\* a restored Tetris instance was dropped to the end alongside the original
C2_Witness ==
    /\ variant = "tetris" /\ restored
    /\ result.op = "drop_piece" /\ twin_result.op = "drop_piece"
    /\ game.game_over /\ twin.game_over
    /\ game.player1_piece_rotation + game.player2_piece_rotation > 0

\* the move, drop, tick and auto-move operations of the three engines
PlayOps ==
    {"move_piece", "drop_piece", "move_snake", "update_game_state",
     "auto_move", "move_paddle", "update_ball", "simulate_turn",
     "auto_move_paddle"}

PostTerminalOps ==
    {"move_piece", "move_snake", "update_game_state", "move_paddle",
     "update_ball", "simulate_turn", "auto_move_paddle"}

\* C3: a call of move_piece, move_snake, update_game_state, move_paddle,
\* update_ball, simulate_turn or auto_move_paddle on a game that is over
\* returns success False and changes no field, for every player id and kind.
C3_PostTerminalRejected ==
    [][(game.game_over /\ result'.op \in PostTerminalOps) =>
          (~result'.ret.success /\ game' = game)]_vars

\* a Pong game that ended had a paddle move refused
C3_Witness ==
    /\ variant = "pong" /\ game.game_over
    /\ result.op = "move_paddle" /\ result.kind = "up"
    /\ result.player = game.player1_id
    /\ ~result.ret.success /\ result.ret.message = "Game is over"

\* C4: once game_over is true no call other than reset_game changes any field
\* of the instance; in particular auto_move leaves both headings as they are.
C4_TerminalImmutable ==
    [][(game.game_over /\ result'.op # "reset_game") => game' = game]_vars

\* C5: drop_piece by a player of a game that is not over locks the piece that
\* was current and stops: the instance afterwards is the one a single lock of
\* that piece at its landing row leaves, with the new piece at (0, 4),
\* rotation 0.
C5_DropLocksOnce ==
    [][(/\ variant = "tetris" /\ ~game.game_over
        /\ result'.op = "drop_piece"
        /\ result'.player \in SessionIds(game)) =>
          \E draws \in PieceDrawSeqs :
              game' = move_piece(SlideDown(game, result'.player), result'.player,
                                 "down", Draw(draws, 0)).g]_vars

\* C6: drop_piece called with an id that is not a player of the session, or
\* on a game that is over, returns success False and changes no field.
C6_DropRejected ==
    [][(/\ variant = "tetris" /\ result'.op = "drop_piece"
        /\ (game.game_over \/ result'.player \notin SessionIds(game))) =>
          (~result'.ret.success /\ game' = game)]_vars

\* C7: move_piece, move_snake or move_paddle called on a game that is not over
\* with an id that is not a player of the session returns success False and
\* changes no field, for every move kind.
C7_InvalidPlayerRejected ==
    [][(/\ ~game.game_over
        /\ result'.op \in {"move_piece", "move_snake", "move_paddle"}
        /\ result'.player \notin SessionIds(game)) =>
          (~result'.ret.success /\ game' = game)]_vars

\* a stranger's move_snake on a running game was refused
C7_Witness ==
    /\ variant = "snake" /\ ~game.game_over
    /\ result.op = "move_snake" /\ result.player \notin SessionIds(game)
    /\ result.kind = "up"
    /\ ~result.ret.success /\ result.ret.message = "Invalid player"

\* whether the snake of player number n (1 or 2) must die in a tick from g:
\* its next head is off the board, on its own body or on the other body, all
\* as they are in g
Doomed(g, n) ==
    LET snake == IF n = 1 THEN g.player1_snake ELSE g.player2_snake
        other == IF n = 1 THEN g.player2_snake ELSE g.player1_snake
        direction == IF n = 1 THEN g.player1_direction ELSE g.player2_direction
    IN  /\ direction \in Directions
        /\ LET h == NewHead(snake[1], direction)
           IN  \/ ~snake_is_valid_position(g, h.x, h.y)
               \/ In(h, snake)
               \/ In(h, other)

\* C8: in a tick each living snake is eliminated exactly when its next head is
\* off the board or on a cell that its own or the other snake's body holds at
\* the start of the tick; this holds for player 2 as for player 1.
C8_SimultaneousTick ==
    [][(variant = "snake" /\ ~game.game_over /\ result'.op = "update_game_state") =>
          /\ game.player1_alive => (game'.player1_alive <=> ~Doomed(game, 1))
          /\ game.player2_alive => (game'.player2_alive <=> ~Doomed(game, 2))]_vars

\* C9: a Pong game whose turn_count has reached the cap is over, and the
\* winner of a game over at the cap is the higher scorer, None on a tie.
C9_PongTurnCap ==
    (variant = "pong" /\ game.turn_count >= PongTurnCap) =>
        /\ game.game_over
        /\ game.winner = IF game.player1_score > game.player2_score
                         THEN game.player1_id
                         ELSE IF game.player2_score > game.player1_score
                         THEN game.player2_id
                         ELSE None

\* C10: a Snake game whose turn_count has reached the cap is over, and the
\* winner of a game the cap ended with tied scores is None.
C10_SnakeTurnCap ==
    (variant = "snake" /\ game.turn_count >= SnakeTurnCap) =>
        /\ game.game_over
        /\ (game.player1_alive /\ game.player2_alive
            /\ game.player1_score = game.player2_score) => game.winner = None

\* C11: after an update_game_state that ran, the game is over whenever at
\* most one snake is alive; a game that is over with exactly one snake alive
\* has that player as winner; with both snakes dead the winner is the
\* strictly higher scorer, None on equal scores.
C11_SnakeEndWinner ==
    (variant = "snake" /\ result.op = "update_game_state" /\ result.ret.success) =>
        /\ ~(game.player1_alive /\ game.player2_alive) => game.game_over
        /\ (game.game_over /\ game.player1_alive /\ ~game.player2_alive) =>
              game.winner = game.player1_id
        /\ (game.game_over /\ game.player2_alive /\ ~game.player1_alive) =>
              game.winner = game.player2_id
        /\ (~game.player1_alive /\ ~game.player2_alive) =>
              game.winner = ScoreWinner(game)

\* C12: from_json of any engine, given a well-formed snapshot that is no
\* valid state (a board of wrong dimensions, a piece position or rotation out
\* of range, a snake or food cell outside the field, a paddle or ball outside
\* the field, a key missing), fails and returns no instance.
C12_MalformedSnapshot ==
    (result.op = "from_json"
     /\ result.kind \in SnakeMalformed \cup TetrisMalformed \cup PongMalformed) =>
        (~result.ret.success /\ "game" \notin DOMAIN result.ret)

\* the acting player's number (1 or 2) in a call by a player of the session
Actor(g, player_id) == IF player_id = g.player1_id THEN 1 ELSE 2
BoardOf(g, n) == IF n = 1 THEN g.player1_board ELSE g.player2_board
PieceOf(g, n) == IF n = 1 THEN g.player1_current_piece ELSE g.player2_current_piece
PosOf(g, n) == IF n = 1 THEN g.player1_piece_pos ELSE g.player2_piece_pos
RotationOf(g, n) == IF n = 1 THEN g.player1_piece_rotation ELSE g.player2_piece_rotation

\* the board cells (row, column) a piece covers at pos in orientation rot
Covered(piece, pos, rot) ==
    UNION {{<<pos[1] + i, pos[2] + j>> : j \in piece.shapes[rot + 1][i + 1]} :
             i \in 0..3}

\* every covered cell lies on the 20x10 board over an empty cell
Fits(board, piece, pos, rot) ==
    \A rc \in Covered(piece, pos, rot) :
        /\ rc[1] \in 0..19 /\ rc[2] \in 0..9
        /\ board[rc[1] + 1][rc[2] + 1] = "."

\* C13: move_piece left, right or rotate by a player of a game that is not
\* over: the candidate is the piece one column to the left, one to the right,
\* or in orientation (rotation + 1) modulo the number of its orientations.  If
\* the candidate fits, the call succeeds and the player's piece_pos and
\* piece_rotation become the candidate, nothing else changes; if not, the call
\* fails and no field changes.
C13_TetrisTransforms ==
    [][(/\ variant = "tetris" /\ ~game.game_over
        /\ result'.op = "move_piece"
        /\ result'.kind \in {"left", "right", "rotate"}
        /\ result'.player \in SessionIds(game)) =>
          LET n == Actor(game, result'.player)
              pos == PosOf(game, n)
              rot == RotationOf(game, n)
              cpos == CASE result'.kind = "left" -> <<pos[1], pos[2] - 1>>
                        [] result'.kind = "right" -> <<pos[1], pos[2] + 1>>
                        [] OTHER -> pos
              crot == IF result'.kind = "rotate"
                      THEN (rot + 1) % Len(PieceOf(game, n).shapes)
                      ELSE rot
          IN  IF Fits(BoardOf(game, n), PieceOf(game, n), cpos, crot)
              THEN /\ result'.ret.success
                   /\ game' = IF n = 1
                              THEN [game EXCEPT !.player1_piece_pos = cpos,
                                                !.player1_piece_rotation = crot]
                              ELSE [game EXCEPT !.player2_piece_pos = cpos,
                                                !.player2_piece_rotation = crot]
              ELSE ~result'.ret.success /\ game' = game]_vars

\* a rotate was refused where the other orientation of the piece is blocked,
\* and the rotation stayed 1
C13_Witness ==
    /\ variant = "tetris" /\ ~game.game_over
    /\ result.op = "move_piece" /\ result.kind = "rotate"
    /\ result.player = game.player1_id
    /\ ~result.ret.success /\ result.ret.message = "Invalid move"
    /\ game.player1_piece_rotation = 1
    /\ \A rot \in 0..3 : rot % 2 # 1 =>
          ~Fits(game.player1_board, game.player1_current_piece,
                game.player1_piece_pos, rot)

\* a 'down' move of player number n that locks: the piece does not fit one
\* row further down
Locks(g, n) ==
    ~Fits(BoardOf(g, n), PieceOf(g, n), <<PosOf(g, n)[1] + 1, PosOf(g, n)[2]>>,
          RotationOf(g, n))

\* the board with the cells the piece covers written as its tag
Written(board, piece, pos, rot) ==
    [r \in 1..Len(board) |->
        [c \in 1..Len(board[r]) |->
            IF <<r - 1, c - 1>> \in Covered(piece, pos, rot) THEN piece.type
            ELSE board[r][c]]]

HasGap(row) == \E c \in 1..Len(row) : row[c] = "."
FullRows(board) == {r \in 1..Len(board) : ~HasGap(board[r])}

\* a call of move_piece "down" by a player of a running game
DownCall ==
    /\ variant = "tetris" /\ ~game.game_over
    /\ result'.op = "move_piece" /\ result'.kind = "down"
    /\ result'.player \in SessionIds(game)

\* C14: when a 'down' move is illegal, the acting player's board afterwards is
\* the old board with the piece's four cells written as its tag, every row
\* without an empty cell removed, the other rows kept in order and as many
\* empty rows put on top as were removed; with no row completed the board
\* differs from the old one in those four cells only.
C14_LockBoard ==
    [][(DownCall /\ Locks(game, Actor(game, result'.player))) =>
          LET n == Actor(game, result'.player)
              written == Written(BoardOf(game, n), PieceOf(game, n),
                                 PosOf(game, n), RotationOf(game, n))
              kept == SelectSeq(written, HasGap)
              removed == Cardinality(FullRows(written))
          IN  /\ Cardinality(Covered(PieceOf(game, n), PosOf(game, n),
                                     RotationOf(game, n))) = 4
              /\ BoardOf(game', n) =
                    [r \in 1..removed |-> EmptyRow(10)] \o kept
              /\ Len(BoardOf(game', n)) = 20
              /\ removed = 0 => BoardOf(game', n) = written]_vars

\* player 2 locked the O piece, the bottom row vanished and the rows above
\* came down by one
C14_Witness ==
    /\ variant = "tetris"
    /\ result.op = "move_piece" /\ result.kind = "down"
    /\ result.player = game.player2_id
    /\ Placed(result.ret) /\ result.ret.lines_cleared = 1
    /\ game.player2_board[20] =
          [c \in 1..10 |-> IF c = 1 THEN "I" ELSE IF c >= 9 THEN "O" ELSE "."]
    /\ game.player2_board[16] = EmptyRow(10)

ScoreOf(g, n) == IF n = 1 THEN g.player1_score ELSE g.player2_score
LinesOf(g, n) == IF n = 1 THEN g.player1_lines_cleared ELSE g.player2_lines_cleared
LevelOf(g, n) == IF n = 1 THEN g.player1_level ELSE g.player2_level

\* the points of the table for n rows, before the level factor
LockPoints(n) ==
    CASE n = 0 -> 0 [] n = 1 -> 40 [] n = 2 -> 100 [] n = 3 -> 300 [] n = 4 -> 1200

\* C15: a lock that removes n rows adds LockPoints(n) * (level + 1) to the
\* acting player's score, level being that player's level before the lock;
\* lines_cleared grows by n and the level afterwards is lines_cleared \div 10
\* + 1; the opponent's score, lines and level do not change.
C15_LockScoring ==
    [][(DownCall /\ Locks(game, Actor(game, result'.player))) =>
          LET n == Actor(game, result'.player)
              o == 3 - n
              removed == Cardinality(FullRows(
                            Written(BoardOf(game, n), PieceOf(game, n),
                                    PosOf(game, n), RotationOf(game, n))))
          IN  /\ removed \in 0..4
              /\ ScoreOf(game', n) =
                    ScoreOf(game, n) + LockPoints(removed) * (LevelOf(game, n) + 1)
              /\ LinesOf(game', n) = LinesOf(game, n) + removed
              /\ LevelOf(game', n) = (LinesOf(game', n) \div 10) + 1
              /\ ScoreOf(game', o) = ScoreOf(game, o)
              /\ LinesOf(game', o) = LinesOf(game, o)
              /\ LevelOf(game', o) = LevelOf(game, o)]_vars

\* player 1 cleared four rows at level 1 with 8 lines behind: 2400 points,
\* 12 lines, level 2
C15_Witness ==
    /\ variant = "tetris"
    /\ result.op = "move_piece" /\ result.kind = "down"
    /\ result.player = game.player1_id
    /\ Placed(result.ret) /\ result.ret.lines_cleared = 4
    /\ game.player1_score = 7200
    /\ game.player1_lines_cleared = 12
    /\ game.player1_level = 2

NextOf(g, n) == IF n = 1 THEN g.player1_next_piece ELSE g.player2_next_piece

\* C16: after a lock the acting player's current piece is the piece that was
\* queued, at (0, 4) with rotation 0, and the new queued piece is one of the
\* seven tetrominoes; the game is over afterwards, with the opponent as
\* winner, exactly when that piece does not fit at (0, 4) on the board the
\* lock left; otherwise the game goes on.
C16_SpawnBlockOut ==
    [][(DownCall /\ Locks(game, Actor(game, result'.player))) =>
          LET n == Actor(game, result'.player)
              opponent == IF n = 1 THEN game.player2_id ELSE game.player1_id
              blocked == ~Fits(BoardOf(game', n), NextOf(game, n), <<0, 4>>, 0)
          IN  /\ PieceOf(game', n) = NextOf(game, n)
              /\ PosOf(game', n) = <<0, 4>>
              /\ RotationOf(game', n) = 0
              /\ \E tag \in {"I", "O", "T", "S", "Z", "J", "L"} :
                    NextOf(game', n) = [type |-> tag, shapes |-> PIECES(tag)]
              /\ game'.game_over <=> blocked
              /\ blocked => game'.winner = opponent
              /\ ~blocked => game'.winner = game.winner]_vars

\* player 1 locked an O on a stack that reaches row 2 with an O queued: the
\* game is over and player 2 has won
C16_Witness ==
    /\ variant = "tetris"
    /\ result.op = "move_piece" /\ result.kind = "down"
    /\ result.player = game.player1_id
    /\ Placed(result.ret)
    /\ game.player1_board[3] = RowOf({5, 6}, "O")
    /\ game.player1_current_piece.type = "O"
    /\ game.player1_piece_pos = <<0, 4>>
    /\ game.game_over /\ game.winner = game.player2_id

\* C17: while the game is not over, each player's current piece at its
\* piece_pos and piece_rotation covers only cells of the 20x10 board that are
\* empty on that player's board, and piece_rotation is an index of the
\* piece's orientations.
C17_PieceValid ==
    (variant = "tetris" /\ ~game.game_over) =>
        \A n \in {1, 2} :
            /\ RotationOf(game, n) \in 0..(Len(PieceOf(game, n).shapes) - 1)
            /\ Fits(BoardOf(game, n), PieceOf(game, n), PosOf(game, n),
                    RotationOf(game, n))

\* player 2 locked an O on a stack that reaches row 2 with an I queued: the I
\* spawned in row 1, right above the stack, and the game goes on
C17_Witness ==
    /\ variant = "tetris" /\ ~game.game_over
    /\ result.op = "move_piece" /\ result.kind = "down"
    /\ result.player = game.player2_id
    /\ Placed(result.ret)
    /\ game.player2_board[3] = RowOf({5, 6}, "O")
    /\ game.player2_current_piece.type = "I"
    /\ game.player2_piece_pos = <<0, 4>>

HeadingOf(g, n) == IF n = 1 THEN g.player1_direction ELSE g.player2_direction
AliveOf(g, n) == IF n = 1 THEN g.player1_alive ELSE g.player2_alive

\* the heading straight against d
Reverse(d) ==
    CASE d = "up" -> "down" [] d = "down" -> "up"
      [] d = "left" -> "right" [] d = "right" -> "left"
      [] OTHER -> "no heading"

\* C18: move_snake by a living player of a game that is not over, with one of
\* the headings up, down, left, right: the reverse of the player's stored
\* heading is refused and nothing changes; any other heading, the stored one
\* included, is accepted and only that player's stored heading changes.
C18_SnakeHeading ==
    [][(/\ variant = "snake" /\ ~game.game_over
        /\ result'.op = "move_snake"
        /\ result'.player \in SessionIds(game)
        /\ AliveOf(game, Actor(game, result'.player))
        /\ result'.kind \in {"up", "down", "left", "right"}) =>
          LET n == Actor(game, result'.player)
          IN  IF result'.kind = Reverse(HeadingOf(game, n))
              THEN ~result'.ret.success /\ game' = game
              ELSE /\ result'.ret.success
                   /\ game' = IF n = 1
                              THEN [game EXCEPT !.player1_direction = result'.kind]
                              ELSE [game EXCEPT !.player2_direction = result'.kind]]_vars

\* player 2, heading left, asked for right and was refused
C18_Witness ==
    /\ variant = "snake" /\ ~game.game_over
    /\ result.op = "move_snake" /\ result.kind = "right"
    /\ result.player = game.player2_id
    /\ ~result.ret.success /\ result.ret.message = "Cannot reverse direction"
    /\ game.player2_direction = "left" /\ game.player2_alive

SnakeOf(g, n) == IF n = 1 THEN g.player1_snake ELSE g.player2_snake
XY(c) == <<c.x, c.y>>
Cells(s) == {XY(s[i]) : i \in 1..Len(s)}

\* the cell ahead of the head of snake n
Ahead(g, n) == XY(NewHead(SnakeOf(g, n)[1], HeadingOf(g, n)))

\* what a tick that takes g to g2 does to snake n, which it does not
\* eliminate: `ate` tells whether its new head was a food cell
Grown(g, g2, n, ate) ==
    /\ Coords(SnakeOf(g2, n)) =
          <<Ahead(g, n)>> \o Coords(IF ate THEN SnakeOf(g, n) ELSE Pop(SnakeOf(g, n)))
    /\ Len(SnakeOf(g2, n)) = Len(SnakeOf(g, n)) + (IF ate THEN 1 ELSE 0)
    /\ ScoreOf(g2, n) = ScoreOf(g, n) + (IF ate THEN 10 ELSE 0)
    /\ ate => Ahead(g, n) \notin Cells(g2.food_positions)

\* player 1 moves first: its new head is a food cell iff it is one at the
\* start of the tick.  Player 2 moves second: a food cell at the start of the
\* tick still is one, and a replacement for what player 1 ate is one more.
FoodGrowth(g, g2) ==
    LET food == Cells(g.food_positions)
        food2 == Cells(g2.food_positions)
        moved(n) == /\ AliveOf(g, n) /\ AliveOf(g2, n)
                    /\ HeadingOf(g, n) \in Directions
        ate1 == moved(1) /\ Ahead(g, 1) \in food
        ate2 == moved(2) /\ Len(g2.player2_snake) > Len(g.player2_snake)
        eats == (IF ate1 THEN 1 ELSE 0) + (IF ate2 THEN 1 ELSE 0)
    IN  /\ moved(1) => Grown(g, g2, 1, ate1)
        /\ moved(2) => /\ Grown(g, g2, 2, ate2)
                       /\ Ahead(g, 2) \in food => ate2
                       /\ ate2 => (Ahead(g, 2) \in food \/ ate1)
        \* food: what was eaten is gone, at most one new cell per eaten one,
        \* each on a cell free of snakes and of other food
        /\ Cardinality(food2 \ food) <= eats
        /\ Len(g2.food_positions) = Cardinality(food2)
        /\ Len(g2.food_positions) <= Len(g.food_positions)
        /\ food2 \cap (Cells(g2.player1_snake) \cup Cells(g2.player2_snake)) = {}

\* C19: in a tick a snake that is not eliminated and whose new head is a food
\* cell grows by one cell and scores 10, and the cell is no food any more (at
\* most one food cell replaces it, on a cell free of snakes and food); one
\* whose new head is no food cell keeps its length and score, the new head put
\* in front and the tail cell dropped.  Stated of every SnakeGame instance,
\* one restored from a snapshot included.
C19_FoodGrowth ==
    [][(variant = "snake" /\ result'.op = "update_game_state") =>
          /\ result'.ret.success => FoodGrowth(game, game')
          /\ twin_result'.ret.success => FoodGrowth(twin, twin')]_vars

\* C20: in update_ball, when the ball moves left and its next column is 1 or
\* less with its next row on one of the 3 cells of player 1's paddle (or it
\* moves right, next column 18 or more, next row on player 2's paddle), then
\* after the tick ball_vel_x is reversed, ball_vel_y is the next row minus the
\* paddle's centre row and one of -1, 0, 1, the ball stands in column 2 (resp.
\* 17), rally_count is one more and no score has changed.
C20_PaddleCollision ==
    [][(variant = "pong" /\ ~game.game_over /\ result'.op = "update_ball") =>
          LET next_x == game.ball_x + game.ball_vel_x
              next_y == Max(0, Min(9, game.ball_y + game.ball_vel_y))
              left == /\ game.ball_vel_x < 0 /\ next_x <= 1
                      /\ next_y \in game.player1_paddle_y..(game.player1_paddle_y + 2)
              right == /\ game.ball_vel_x > 0 /\ next_x >= 18
                       /\ next_y \in game.player2_paddle_y..(game.player2_paddle_y + 2)
              centre == IF left THEN game.player1_paddle_y + 1
                        ELSE game.player2_paddle_y + 1
          IN  (left \/ right) =>
                 /\ game'.ball_vel_x = -game.ball_vel_x
                 /\ game'.ball_vel_y = next_y - centre
                 /\ game'.ball_vel_y \in {-1, 0, 1}
                 /\ game'.ball_x = IF left THEN 2 ELSE 17
                 /\ game'.rally_count = game.rally_count + 1
                 /\ game'.player1_score = game.player1_score
                 /\ game'.player2_score = game.player2_score]_vars

\* the tick update_ball makes from g: the ball's next column and (after the
\* wall clamp) next row, and whether a paddle returns the ball
NextColumn(g) == g.ball_x + g.ball_vel_x
NextRow(g) == Max(0, Min(g.field_height - 1, g.ball_y + g.ball_vel_y))
OnPaddle(row, paddle_y) == row \in paddle_y..(paddle_y + 2)
Returned(g) ==
    \/ /\ g.ball_vel_x < 0 /\ NextColumn(g) <= 1
       /\ OnPaddle(NextRow(g), g.player1_paddle_y)
    \/ /\ g.ball_vel_x > 0 /\ NextColumn(g) >= g.field_width - 2
       /\ OnPaddle(NextRow(g), g.player2_paddle_y)
Tick == variant = "pong" /\ ~game.game_over /\ result'.op = "update_ball"

\* C21: in an update_ball where no paddle returns the ball and the ball's next
\* column is 0 or less, player 2's score grows by one and player 1's stays
\* (19 or more: player 1's grows, player 2's stays), the ball stands at (10,5)
\* with ball_vel_x one of -1, 1 and ball_vel_y one of -1, 0, 1, and
\* rally_count is 0; in every other update_ball no score changes.
C21_PongScoring ==
    [][Tick =>
          LET left == ~Returned(game) /\ NextColumn(game) <= 0
              right == ~Returned(game) /\ NextColumn(game) >= 19
              reset == /\ game'.ball_x = 10 /\ game'.ball_y = 5
                       /\ game'.ball_vel_x \in {-1, 1}
                       /\ game'.ball_vel_y \in {-1, 0, 1}
                       /\ game'.rally_count = 0
          IN  /\ left => /\ game'.player2_score = game.player2_score + 1
                         /\ game'.player1_score = game.player1_score
                         /\ reset
              /\ right => /\ game'.player1_score = game.player1_score + 1
                          /\ game'.player2_score = game.player2_score
                          /\ reset
              /\ ~(left \/ right) =>
                         /\ game'.player1_score = game.player1_score
                         /\ game'.player2_score = game.player2_score]_vars

\* player 1 scored at the right boundary and the ball was served again
C21_Witness ==
    /\ variant = "pong" /\ result.op = "update_ball"
    /\ result.ret.message = "Player 1 scores!"
    /\ game.player1_score = 11 /\ game.player2_score = 10
    /\ game.ball_x = 10 /\ game.ball_y = 5 /\ game.ball_vel_x = -1
    /\ game.rally_count = 0

\* the ball of g has passed player n's paddle: it stands on the paddle's
\* column (or beyond) and still moves toward that player's boundary
Missed(g, n) ==
    IF n = 1 THEN g.ball_vel_x < 0 /\ g.ball_x <= 1
    ELSE g.ball_vel_x > 0 /\ g.ball_x >= g.field_width - 2

\* the ball of g arrives at player n's paddle column in the next tick, on a
\* row the paddle does not cover
Misses(g, n) ==
    IF n = 1
    THEN /\ g.ball_vel_x < 0 /\ NextColumn(g) <= 1
         /\ ~OnPaddle(NextRow(g), g.player1_paddle_y)
    ELSE /\ g.ball_vel_x > 0 /\ NextColumn(g) >= g.field_width - 2
         /\ ~OnPaddle(NextRow(g), g.player2_paddle_y)

\* the step from g to g2 is a point for the opponent of player n, the ball
\* served again from the centre
PointAgainst(g, g2, n) ==
    /\ IF n = 1
       THEN /\ g2.player2_score = g.player2_score + 1
            /\ g2.player1_score = g.player1_score
       ELSE /\ g2.player1_score = g.player1_score + 1
            /\ g2.player2_score = g.player2_score
    /\ g2.ball_x = 10 /\ g2.ball_y = 5

\* the step from g to g2 changes rally_count or a score
Counted(g, g2) ==
    \/ g2.rally_count # g.rally_count
    \/ g2.player1_score # g.player1_score
    \/ g2.player2_score # g.player2_score

\* C22: a tick in which the ball arrives at player 1's paddle column on a row
\* outside the paddle either is a point for player 2 or leaves the ball past
\* the paddle; and while the ball is past the paddle, a step (a paddle move or
\* a tick) that changes rally_count or a score is a point for player 2 with
\* the ball back at the centre, and any other step leaves the ball past the
\* paddle.  The same for player 2's side with a point for player 1.
C22_MissScores ==
    [][(variant = "pong" /\ ~game.game_over /\ result'.op \in PlayOps) =>
          \A n \in {1, 2} :
             /\ (Tick /\ Misses(game, n)) =>
                   \/ PointAgainst(game, game', n)
                   \/ ~Counted(game, game') /\ Missed(game', n)
             /\ (Missed(game, n) /\ game' # game) =>
                   IF Counted(game, game') THEN PointAgainst(game, game', n)
                   ELSE Missed(game', n)]_vars

\* C23: in a Pong game both scores are at most 11, at most one of them is 11,
\* and a score of 11 means the game is over; and the step in which a player's
\* score becomes 11 leaves game_over true with that player as winner.
C23_PongWinOnTarget ==
    /\ [](variant = "pong" =>
             /\ game.player1_score <= 11 /\ game.player2_score <= 11
             /\ ~(game.player1_score = 11 /\ game.player2_score = 11)
             /\ (game.player1_score = 11 \/ game.player2_score = 11)
                    => game.game_over)
    /\ [][variant = "pong" =>
             /\ (game.player1_score # 11 /\ game'.player1_score = 11) =>
                    (game'.game_over /\ game'.winner = game.player1_id)
             /\ (game.player2_score # 11 /\ game'.player2_score = 11) =>
                    (game'.game_over /\ game'.winner = game.player2_id)]_vars

\* player 2 reached 11 against 10 and the game ended in that tick
C23_Witness ==
    /\ variant = "pong" /\ result.op = "update_ball"
    /\ result.ret.message = "Player 2 scores!"
    /\ game.player2_score = 11 /\ game.player1_score = 10
    /\ game.game_over /\ game.winner = game.player2_id
    /\ game.turn_count < PongTurnCap

\* the paddle offsets that keep a paddle inside the field
PaddleRange(g) == 0..(g.field_height - g.paddle_height)

\* C24: both paddle offsets of a Pong game are within 0..7; and a move_paddle
\* up or down by a player of a game that is not over changes that player's
\* paddle offset by one cell when the result is within 0..7, by nothing
\* otherwise, and changes no other field.
C24_PaddleClamp ==
    /\ [](variant = "pong" =>
             /\ PaddleRange(game) = 0..7
             /\ game.player1_paddle_y \in PaddleRange(game)
             /\ game.player2_paddle_y \in PaddleRange(game))
    /\ [][(/\ variant = "pong" /\ ~game.game_over
           /\ result'.op = "move_paddle"
           /\ result'.player \in SessionIds(game)
           /\ result'.kind \in {"up", "down"}) =>
             LET first == result'.player = game.player1_id
                 own == IF first THEN game.player1_paddle_y
                        ELSE game.player2_paddle_y
                 target == IF result'.kind = "up" THEN own - 1 ELSE own + 1
                 new == IF target \in PaddleRange(game) THEN target ELSE own
             IN  /\ result'.ret.success
                 /\ game' = IF first THEN [game EXCEPT !.player1_paddle_y = new]
                            ELSE [game EXCEPT !.player2_paddle_y = new]]_vars

\* player 1, at the lower edge, moved down and stayed
C24_Witness ==
    /\ variant = "pong" /\ steps = 1
    /\ result.op = "move_paddle" /\ result.kind = "down"
    /\ result.player = game.player1_id /\ result.ret.success
    /\ game.player1_paddle_y = 7

\* C25: the ball of a Pong game is in a row 0..9 and a column 1..18, its
\* ball_vel_x is -1 or 1 and its ball_vel_y is -1, 0 or 1.
C25_BallInBounds ==
    variant = "pong" =>
        /\ game.ball_y \in 0..9
        /\ game.ball_x \in 1..18
        /\ game.ball_vel_x \in {-1, 1}
        /\ game.ball_vel_y \in {-1, 0, 1}

\* the ball bounced off the top wall, or was moved onto the last column
\* before the right boundary
C25_Witness ==
    /\ variant = "pong" /\ result.op = "update_ball"
    /\ result.ret.message = "Ball moved"
    /\ \/ game.ball_y = 0 /\ game.ball_vel_y = 1
       \/ game.ball_x = 18 /\ game.ball_vel_x = 1

\* whether every cell of the list s is on the board of g
OnBoard(g, s) ==
    \A i \in 1..Len(s) : s[i].x \in 0..(g.board_height - 1)
                         /\ s[i].y \in 0..(g.board_width - 1)

\* C26: in a Snake game the board is 15 by 15 and every cell of either snake
\* and every food cell is on it.
C26_SnakeInBounds ==
    variant = "snake" =>
        /\ game.board_height = 15 /\ game.board_width = 15
        /\ OnBoard(game, game.player1_snake)
        /\ OnBoard(game, game.player2_snake)
        /\ OnBoard(game, game.food_positions)

\* player 1, heading up on the top row, was eliminated at the wall and its
\* snake stayed where it was
C26_Witness ==
    /\ variant = "snake" /\ result.op = "update_game_state"
    /\ result.ret.success /\ result.ret.p1 = "Hit wall - eliminated!"
    /\ ~game.player1_alive
    /\ game.player1_snake[1].x = 0 /\ game.player1_direction = "up"

\* C27: in all three engines a call of a move, drop, tick or auto-move
\* operation on a game that is over leaves game_over true and the winner as
\* it was.
C27_GameOverMonotonic ==
    [][(game.game_over /\ result'.op \in PlayOps) =>
          (game'.game_over /\ game'.winner = game.winner)]_vars

\* a Snake game that player 1 won is still won by player 1 after an
\* auto_move changed a heading
C27_Witness ==
    /\ variant = "snake" /\ game.game_over /\ game.winner = game.player1_id
    /\ result.op = "auto_move" /\ result.ret.success
    /\ result.ret.message = "Changed direction"

\* C28: in all three engines no call of a move, drop or tick operation lowers
\* a player's score, a Tetris player's lines_cleared or the turn_count of a
\* Snake or Pong game, and no score is negative.
C28_MonotonicCounters ==
    /\ [](game.player1_score >= 0 /\ game.player2_score >= 0)
    /\ [][result'.op \in PlayOps =>
             /\ game'.player1_score >= game.player1_score
             /\ game'.player2_score >= game.player2_score
             /\ variant = "tetris" =>
                   /\ game'.player1_lines_cleared >= game.player1_lines_cleared
                   /\ game'.player2_lines_cleared >= game.player2_lines_cleared
             /\ variant \in {"snake", "pong"} =>
                   game'.turn_count >= game.turn_count]_vars

\* a Tetris lock cleared four rows at level 1: lines_cleared went from 8 to
\* 12 and the score from 4800 to 7200
C28_Witness ==
    /\ variant = "tetris" /\ result.op \in {"move_piece", "drop_piece"}
    /\ game.player1_lines_cleared = 12 /\ game.player1_score = 7200

\* C29: however handle_game_move coroutines for one session overtake each
\* other at their awaits, handle_game_over settles the session at most once:
\* no user is credited twice for the same session.
C29_SingleSettlement ==
    variant = "registry" =>
        \A i, j \in 1..Len(ledger) :
            (i # j /\ ledger[i].session_id = ledger[j].session_id)
                => ledger[i].user_id # ledger[j].user_id

\* the engine object registered for session sid
LiveEngine(sid) == engines[active_games[sid]]

\* C30: while the engine registered for a session is not over, a handler step
\* that is not the engine call of a handle_game_move leaves the session
\* registered with the same engine object in the same state; in particular
\* start_game_session does not put a new engine in its place.
C30_OneLiveEngine ==
    [][variant = "registry" =>
          \A sid \in DOMAIN active_games :
             (~LiveEngine(sid).g.game_over /\ result'.op # "handle_game_move") =>
                 /\ sid \in DOMAIN active_games'
                 /\ active_games'[sid] = active_games[sid]
                 /\ engines'[active_games[sid]] = LiveEngine(sid)]_vars

\* no handle_game_move coroutine is suspended at an await
Quiescent == \A t \in TaskIds : tasks[t].pc = "idle"

\* C31: a session whose engine reached game_over is discarded: once the
\* handle_game_move coroutines in flight have ended, no finished engine is
\* registered in active_games any more.
C31_TerminalDiscard ==
    (variant = "registry" /\ Quiescent) =>
        \A sid \in DOMAIN active_games : ~LiveEngine(sid).g.game_over

\* an engine as its constructor leaves it, as far as C32 speaks of it
JustConstructed(g) ==
    /\ g.game_over = FALSE
    /\ g.winner = None
    /\ g.player1_score = 0
    /\ g.player2_score = 0

\* C32: right after a TetrisGame, SnakeGame or PingPongGame is constructed,
\* whatever pieces, food cells or ball direction were drawn, the game is not
\* over, there is no winner and both scores are 0.
C32_InitialState ==
    (variant = "registry" /\ result.op = "start_game_session") =>
        \A sid \in DOMAIN active_games : JustConstructed(LiveEngine(sid).g)

\* a PingPongGame has just been constructed with the ball drawn to go upwards
C32_Witness ==
    /\ variant = "registry"
    /\ result.op = "start_game_session"
    /\ "s" \in DOMAIN active_games
    /\ LiveEngine("s").kind = "pong"
    /\ LiveEngine("s").g.ball_vel_y = 0 - 1
    /\ JustConstructed(LiveEngine("s").g)

\* what belongs to player number n of a TetrisGame
PlayerFields(g, n) ==
    [board |-> BoardOf(g, n), current_piece |-> PieceOf(g, n),
     next_piece |-> NextOf(g, n), piece_pos |-> PosOf(g, n),
     piece_rotation |-> RotationOf(g, n), score |-> ScoreOf(g, n),
     lines_cleared |-> LinesOf(g, n), level |-> LevelOf(g, n)]

\* what belongs to neither player and is not the verdict
SessionFields(g) ==
    [session_id |-> g.session_id, player1_id |-> g.player1_id,
     player2_id |-> g.player2_id, board_width |-> g.board_width,
     board_height |-> g.board_height]

\* C33: a move_piece or drop_piece call by one player of a TetrisGame leaves
\* the other player's board, current piece, next piece, piece position, piece
\* rotation, score, lines_cleared and level as they were; besides the acting
\* player's own fields only game_over and winner may change.
C33_TetrisFrame ==
    [][(/\ variant = "tetris"
        /\ result'.op \in {"move_piece", "drop_piece"}
        /\ result'.player \in SessionIds(game)) =>
          LET n == Actor(game, result'.player)
          IN  /\ PlayerFields(game', 3 - n) = PlayerFields(game, 3 - n)
              /\ SessionFields(game') = SessionFields(game)
              /\ DOMAIN game' = DOMAIN game]_vars

\* player 1 locked a piece and cleared four rows while player 2, who has cells
\* on the board and a piece in mid-air, was left as they were
C33_Witness ==
    /\ variant = "tetris"
    /\ result.op = "move_piece" /\ result.kind = "down"
    /\ result.player = game.player1_id
    /\ Placed(result.ret) /\ result.ret.lines_cleared = 4
    /\ game.player2_board[20] # EmptyRow(10)
    /\ game.player2_piece_pos = <<16, 7>>
    /\ game.player2_current_piece = get_random_piece("O")

\* C34: a drop_piece call returns: whatever state the TetrisGame is in,
\* whichever player id is passed and whatever pieces are drawn, its loop of
\* 'down' moves comes to the break.
C34_DropTerminates == (drop.pc = "call") ~> (drop.pc = "returned")

\* a drop_piece call of player 1 has returned after locking pieces up to the
\* top of the board
C34_Witness ==
    /\ variant = "tetris"
    /\ drop.pc = "returned" /\ drop.player = game.player1_id
    /\ result.op = "drop_piece" /\ result.ret.message = "Piece dropped"
    /\ game.game_over /\ game.winner = game.player2_id
    /\ \A r \in 3..20 : game.player1_board[r] # EmptyRow(10)

\* the move kinds of a variant
KindsOf(v) ==
    CASE v = "tetris" -> TetrisKinds
      [] v = "snake" -> {"up", "down", "left", "right"}
      [] v = "pong" -> {"up", "down"}

\* C35: a move_piece, move_snake or move_paddle call by one of the two players
\* on a game that is not over, with a move kind the variant does not have, is
\* refused (success False) and changes no field.
C35_UnknownMoveKind ==
    [][(/\ variant \in {"tetris", "snake", "pong"} /\ ~game.game_over
        /\ result'.op \in {"move_piece", "move_snake", "move_paddle"}
        /\ result'.player \in SessionIds(game)
        /\ result'.kind \notin KindsOf(variant)) =>
          (~result'.ret.success /\ game' = game)]_vars

\* a board of 20 rows of 10 cells, each empty or a piece tag, no row full
WellShaped(board) ==
    /\ Len(board) = 20
    /\ \A r \in 1..Len(board) :
          /\ Len(board[r]) = 10
          /\ \A c \in 1..Len(board[r]) : board[r][c] \in {"."} \cup Tags
          /\ HasGap(board[r])

\* C36: in every state a TetrisGame reaches from construction by move_piece
\* and drop_piece calls, each player's board has exactly 20 rows of exactly 10
\* cells, every cell is '.' or one of the seven piece tags, and no row is
\* completely filled.
C36_BoardShape ==
    variant = "tetris" =>
        WellShaped(game.player1_board) /\ WellShaped(game.player2_board)

\* player 2 has just completed the bottom row by a lock and the row is gone
C36_Witness ==
    /\ variant = "tetris"
    /\ result.op = "move_piece" /\ result.player = game.player2_id
    /\ Placed(result.ret) /\ result.ret.lines_cleared = 1
    /\ WellShaped(game.player2_board)
    /\ \E r \in 1..20 : game.player2_board[r] # EmptyRow(10)

\* the number of cells of a board that are not empty
Filled(board) ==
    Cardinality({rc \in (1..Len(board)) \X (1..10) : board[rc[1]][rc[2]] # "."})

\* what a player's board holds and what the player has cleared from it, in
\* cells: four times the number of pieces the player has locked, if C37 holds
CellsLocked(g, n) == Filled(BoardOf(g, n)) + 10 * LinesOf(g, n)

\* the step is a move_piece "down" call of drop_piece that locks the piece of
\* player number n
LockBy(n) ==
    /\ drop.pc = "call" /\ drop'.pc = "test"
    /\ Placed(result'.ret)
    /\ drop.player \in SessionIds(game)
    /\ Actor(game, drop.player) = n

\* C37: every lock writes exactly four cells that were empty, and nothing
\* else fills a cell or counts a line: a lock of player n raises the filled
\* cells of n's board plus 10 x n's lines_cleared by 4, every other step leaves
\* that sum as it is, and so in every state the filled cells are 4 x (pieces
\* the player has locked) - 10 x lines_cleared; in particular the sum is a
\* multiple of 4.
C37_CellAccounting ==
    /\ [](variant = "tetris" =>
             \A n \in {1, 2} : CellsLocked(game, n) >= 0
                               /\ CellsLocked(game, n) % 4 = 0)
    /\ [][variant = "tetris" =>
             \A n \in {1, 2} :
                /\ LockBy(n) =>
                      LET cells == Covered(PieceOf(game, n), PosOf(game, n),
                                           RotationOf(game, n))
                      IN  /\ Cardinality(cells) = 4
                          /\ \A rc \in cells :
                                At(BoardOf(game, n), rc[1], rc[2]) = "."
                /\ CellsLocked(game', n) =
                      CellsLocked(game, n) + (IF LockBy(n) THEN 4 ELSE 0)]_vars

\* player 1's lock completed four rows: 36 cells and the piece's 4 made way
\* for 40 cleared cells, the board is empty
C37_Witness ==
    /\ variant = "tetris"
    /\ drop.pc = "test" /\ drop.player = game.player1_id
    /\ Placed(result.ret) /\ result.ret.lines_cleared = 4
    /\ Filled(game.player1_board) = 0
    /\ game.player1_lines_cleared = 12

SnakeScoreOf(g, n) == IF n = 1 THEN g.player1_score ELSE g.player2_score

\* C38: in every state a SnakeGame reaches from construction by move_snake
\* and update_game_state calls, each snake's length is 3 + score / 10 of its
\* player and each score is a multiple of 10.
C38_LengthScore ==
    variant = "snake" =>
        \A n \in {1, 2} :
           /\ SnakeScoreOf(game, n) % 10 = 0
           /\ Len(SnakeOf(game, n)) = 3 + (SnakeScoreOf(game, n) \div 10)

\* player 1 has eaten: four cells long with 10 points, player 2 has not
C38_Witness ==
    /\ variant = "snake"
    /\ result.op = "update_game_state"
    /\ game.player1_score = 10 /\ Len(game.player1_snake) = 4
    /\ game.player2_score = 0 /\ Len(game.player2_snake) = 3

\* no cell occurs twice in the list
Distinct(s) == Cardinality(Cells(s)) = Len(s)

\* C39: in every state a SnakeGame reaches from construction by move_snake
\* and update_game_state calls, no cell occurs twice within one snake, the
\* two snakes share no cell, no food cell is a cell of a snake or occurs
\* twice, and there are at most 2 food cells.
C39_SnakeOccupancy ==
    variant = "snake" =>
        /\ Distinct(game.player1_snake)
        /\ Distinct(game.player2_snake)
        /\ Cells(game.player1_snake) \cap Cells(game.player2_snake) = {}
        /\ Distinct(game.food_positions)
        /\ Cells(game.food_positions)
              \cap (Cells(game.player1_snake) \cup Cells(game.player2_snake)) = {}
        /\ Len(game.food_positions) <= 2

\* player 1 has eaten the food at (7, 3): the cell is gone from the list and
\* the food left lies on no snake
C39_Witness ==
    /\ variant = "snake"
    /\ result.op = "update_game_state"
    /\ Len(game.player1_snake) = 4
    /\ XY(game.player1_snake[1]) = <<7, 3>>
    /\ game.food_positions = <<Cell(7, 11)>>
    /\ game.player2_alive /\ Len(game.player2_snake) = 3

\* C40: in every state of the three engines winner is None, player1_id or
\* player2_id; a game that is not over has no winner; a TetrisGame that is
\* over has a winner; a SnakeGame or PingPongGame that is over without a
\* winner has equal scores.
C40_WinnerConsistency ==
    variant \in {"tetris", "snake", "pong"} =>
        /\ game.winner \in {None, game.player1_id, game.player2_id}
        /\ ~game.game_over => game.winner = None
        /\ (variant = "tetris" /\ game.game_over) => game.winner # None
        /\ (variant \in {"snake", "pong"} /\ game.game_over /\ game.winner = None)
              => game.player1_score = game.player2_score

\* a PingPongGame ended at the turn limit with the scores level: a tie
C40_Witness ==
    /\ variant = "pong"
    /\ game.game_over /\ game.winner = None
    /\ game.player1_score = game.player2_score
    /\ game.turn_count >= PongTurnCap

====
